---- MODULE Spec2Model ----
(***************************************************************************)
(* Model of the job-tracker pipeline: identity generation, two-pass        *)
(* deduplication and the seen-ledger filter (scripts/common/dedup.py) as   *)
(* they are composed by scrape_jobs in the provider scrapers.              *)
(*                                                                         *)
(* Python text is modelled as a sequence of one-character strings, so that *)
(* strip(), lower(), re.sub() and re.findall() are computed character by   *)
(* character as the interpreter computes them.                             *)
(***************************************************************************)
EXTENDS Integers, Sequences, FiniteSets, TLC

\* ------------------------------------------------------------------ bounds
\* Largest batch of normalized records handed to the Deduplicator.
MaxJobs == 3
\* Largest number of lines in one ledger document.
MaxLines == 2

\* ------------------------------------------------------------ text helpers
\* Characters str.strip() removes at both ends.
Whitespace == {" ", "\t", "\n"}

UpperLetters ==
    <<"A","B","C","D","E","F","G","H","I","J","K","L","M",
      "N","O","P","Q","R","S","T","U","V","W","X","Y","Z">>
LowerLetters ==
    <<"a","b","c","d","e","f","g","h","i","j","k","l","m",
      "n","o","p","q","r","s","t","u","v","w","x","y","z">>
Digits == {"0","1","2","3","4","5","6","7","8","9"}

Range(s) == {s[i] : i \in DOMAIN s}

\* str.lower() on one character.
LowerChar(c) ==
    IF \E i \in DOMAIN UpperLetters : UpperLetters[i] = c
    THEN LowerLetters[CHOOSE i \in DOMAIN UpperLetters : UpperLetters[i] = c]
    ELSE c

\* str.lower()
Lower(s) == [i \in DOMAIN s |-> LowerChar(s[i])]

\* str.strip(): drop leading and trailing whitespace.
Strip(s) ==
    LET keep == {i \in DOMAIN s : s[i] \notin Whitespace} IN
    IF keep = {} THEN <<>>
    ELSE LET lo == CHOOSE i \in keep : \A j \in keep : i <= j
             hi == CHOOSE i \in keep : \A j \in keep : j <= i
         IN SubSeq(s, lo, hi)

\* s.startswith(p)
StartsWith(s, p) == Len(p) <= Len(s) /\ SubSeq(s, 1, Len(p)) = p

\* s.endswith(p)
EndsWith(s, p) == Len(p) <= Len(s) /\ SubSeq(s, Len(s) - Len(p) + 1, Len(s)) = p

\* p occurs in s at position i
OccursAt(s, p, i) == i >= 1 /\ i + Len(p) - 1 <= Len(s) /\ SubSeq(s, i, i + Len(p) - 1) = p

\* s.split(c) for a one-character separator: always at least one part.
RECURSIVE SplitLoop(_, _, _, _)
SplitLoop(s, c, i, cur) ==
    IF i > Len(s) THEN <<cur>>
    ELSE IF s[i] = c THEN <<cur>> \o SplitLoop(s, c, i + 1, <<>>)
    ELSE SplitLoop(s, c, i + 1, Append(cur, s[i]))

Split(s, c) == SplitLoop(s, c, 1, <<>>)

\* ------------------------------------------------------------------ hashing
\* hashlib.md5(...).hexdigest() is a 32-digit hexadecimal string; the code
\* keeps its first IdLen digits.  The digest is modelled as an injective
\* encoding (one non-zero hex digit per character, zero-padded to the digest
\* width), which is the reading "no hash coincidence" the specification
\* takes: equal digests exactly for equal input strings.  The encoding is
\* injective on texts of at most IdLen characters over HashAlphabet, which
\* every hashed text of the input domains below is.
DigestLen == 32
IdLen == 12

HashAlphabet == <<"a","b","c","d","s","x","D","S"," ","-","!",")","p","q","|">>
HexDigits == <<"1","2","3","4","5","6","7","8","9","a","b","c","d","e","f">>

HexOf(c) == HexDigits[CHOOSE i \in DOMAIN HashAlphabet : HashAlphabet[i] = c]

\* Urls of job sites, longer than IdLen and outside HashAlphabet: the digest of
\* each is a digit string of its own that encodes no other text (a zero, then
\* one non-zero digit).
Url_LinkedInView == <<"h","t","t","p","s",":","/","/","w","w","w",".","l","i","n","k","e","d","i","n",".","c","o","m","/","j","o","b","s","/","v","i","e","w","/","d","s","-","a","t","-","a","c","m","e","-","1","2">>
Url_IndeedView == <<"h","t","t","p","s",":","/","/","w","w","w",".","i","n","d","e","e","d",".","c","o","m","/","v","i","e","w","j","o","b","?","j","k","=","1">>
Url_IndeedSearch == <<"h","t","t","p","s",":","/","/","w","w","w",".","i","n","d","e","e","d",".","c","o","m","/","q","-","d","s","-","j","o","b","s",".","h","t","m","l">>
Url_LinkedInSearch == <<"h","t","t","p","s",":","/","/","w","w","w",".","l","i","n","k","e","d","i","n",".","c","o","m","/","j","o","b","s","/","s","e","a","r","c","h","/","?","k","=","1">>

LongTexts == <<Url_LinkedInView, Url_IndeedView, Url_IndeedSearch, Url_LinkedInSearch>>

Md5Hex(s) ==
    IF \E n \in DOMAIN LongTexts : LongTexts[n] = s
    THEN [i \in 1..DigestLen |->
            IF i = 2 THEN HexDigits[CHOOSE n \in DOMAIN LongTexts : LongTexts[n] = s] ELSE "0"]
    ELSE [i \in 1..DigestLen |-> IF i <= Len(s) THEN HexOf(s[i]) ELSE "0"]

\* hashlib.md5(s.encode()).hexdigest()[:12]
Md5Hex12(s) == SubSeq(Md5Hex(s), 1, IdLen)

\* ------------------------------------------------------- identity generator
\* generate_job_id with the description mixed into the hashed text.
generate_job_id_WithDescription(job) ==
    LET url == Strip(job.url) IN
    IF url # <<>> THEN Md5Hex12(url \o job.description)
    ELSE Md5Hex12(job.title \o <<"-">> \o job.company \o <<"-">> \o job.location)

\* generate_job_id(job): the hash of the trimmed url when it is non-empty,
\* else the hash of "title-company-location".
generate_job_id(job) ==
    LET url == Strip(job.url) IN
    IF url # <<>> THEN Md5Hex12(url)
    ELSE Md5Hex12(job.title \o <<"-">> \o job.company \o <<"-">> \o job.location)

\* ------------------------------------------------------------ deduplicator
\* Characters re.sub(r"[^a-z0-9 ]", "", ...) keeps.
TitleChars == Range(LowerLetters) \cup Digits \cup {" "}

\* _normalize_title(title)
normalize_title(title) ==
    Strip(SelectSeq(Lower(title), LAMBDA c : c \in TitleChars))

\* SOURCE_RANK.get(source, 99)
SOURCE_RANK(source) ==
    CASE source = "linkedin"  -> 0
      [] source = "indeed"    -> 1
      [] source = "glassdoor" -> 2
      [] source = "builtin"   -> 3
      [] source = "wellfound" -> 4
      [] OTHER                -> 99

\* Pass 1 loop: seen_urls and url_unique after the records from index i on.
RECURSIVE Pass1Loop(_, _, _, _)
Pass1Loop(jobs, i, seen_urls, url_unique) ==
    IF i > Len(jobs) THEN url_unique
    ELSE LET url == Strip(jobs[i].url) IN
         IF url \notin seen_urls
         THEN Pass1Loop(jobs, i + 1, seen_urls \cup {url}, Append(url_unique, jobs[i]))
         ELSE Pass1Loop(jobs, i + 1, seen_urls, url_unique)

\* Pass 1 with the loop starting one record late.
Pass1_SkipFirst(jobs) == Pass1Loop(jobs, 2, {}, <<>>)

\* Pass 1 that compares only non-empty urls: every URL-less record passes.
RECURSIVE Pass1Loop_KeepUrlLess(_, _, _, _)
Pass1Loop_KeepUrlLess(jobs, i, seen_urls, url_unique) ==
    IF i > Len(jobs) THEN url_unique
    ELSE LET url == Strip(jobs[i].url) IN
         IF url = <<>> \/ url \notin seen_urls
         THEN Pass1Loop_KeepUrlLess(jobs, i + 1, seen_urls \cup {url}, Append(url_unique, jobs[i]))
         ELSE Pass1Loop_KeepUrlLess(jobs, i + 1, seen_urls, url_unique)

Pass1_KeepUrlLess(jobs) == Pass1Loop_KeepUrlLess(jobs, 1, {}, <<>>)

\* Pass 1 (exact): the first-seen record of every distinct trimmed url.
Pass1(jobs) == Pass1Loop(jobs, 1, {}, <<>>)

\* Position of key in the insertion-ordered title_map (0 when absent).
KeyIndex(title_map, key) ==
    IF \E k \in DOMAIN title_map : title_map[k].key = key
    THEN CHOOSE k \in DOMAIN title_map : title_map[k].key = key
    ELSE 0

\* Pass 2 loop body with "<=" for "<": the last record of the best rank wins.
Pass2Step_LastWins(title_map, job) ==
    LET key == normalize_title(job.title)
        k   == KeyIndex(title_map, key)
    IN IF key = <<>> THEN title_map
       ELSE IF k = 0 THEN Append(title_map, [key |-> key, job |-> job])
       ELSE IF SOURCE_RANK(job.source) <= SOURCE_RANK(title_map[k].job.source)
       THEN [title_map EXCEPT ![k].job = job]
       ELSE title_map

\* Pass 2 loop body deleting and re-inserting the key on replacement, which
\* moves the key to the end of the dict.
Pass2Step_Reinsert(title_map, job) ==
    LET key == normalize_title(job.title)
        k   == KeyIndex(title_map, key)
    IN IF key = <<>> THEN title_map
       ELSE IF k = 0 THEN Append(title_map, [key |-> key, job |-> job])
       ELSE IF SOURCE_RANK(job.source) < SOURCE_RANK(title_map[k].job.source)
       THEN Append(SubSeq(title_map, 1, k - 1) \o SubSeq(title_map, k + 1, Len(title_map)),
                   [key |-> key, job |-> job])
       ELSE title_map

\* Pass 2 loop body editing the kept record's source instead of replacing
\* the record.
Pass2Step_Merge(title_map, job) ==
    LET key == normalize_title(job.title)
        k   == KeyIndex(title_map, key)
    IN IF key = <<>> THEN title_map
       ELSE IF k = 0 THEN Append(title_map, [key |-> key, job |-> job])
       ELSE IF SOURCE_RANK(job.source) < SOURCE_RANK(title_map[k].job.source)
       THEN [title_map EXCEPT ![k].job.source = job.source]
       ELSE title_map

\* Pass 2 loop body without the "if not key: continue" skip: the empty key
\* is a key like any other.
Pass2Step_KeepEmptyKey(title_map, job) ==
    LET key == normalize_title(job.title)
        k   == KeyIndex(title_map, key)
    IN IF k = 0 THEN Append(title_map, [key |-> key, job |-> job])
       ELSE IF SOURCE_RANK(job.source) < SOURCE_RANK(title_map[k].job.source)
       THEN [title_map EXCEPT ![k].job = job]
       ELSE title_map

\* Pass 2 loop body.  title_map is a Python dict: a sequence of (key, job)
\* entries in insertion order; assigning to an existing key keeps the key's
\* position.
Pass2Step(title_map, job) ==
    LET key == normalize_title(job.title)
        k   == KeyIndex(title_map, key)
    IN IF key = <<>> THEN title_map
       ELSE IF k = 0 THEN Append(title_map, [key |-> key, job |-> job])
       ELSE IF SOURCE_RANK(job.source) < SOURCE_RANK(title_map[k].job.source)
       THEN [title_map EXCEPT ![k].job = job]
       ELSE title_map

RECURSIVE Pass2Loop(_, _, _)
Pass2Loop(url_unique, i, title_map) ==
    IF i > Len(url_unique) THEN title_map
    ELSE Pass2Loop(url_unique, i + 1, Pass2Step(title_map, url_unique[i]))

\* Pass 2 that groups nothing: every Pass-1 survivor is returned.
Pass2_KeepAll(url_unique) == url_unique

\* Pass 2 (fuzzy): one record per non-empty normalized title, the best
\* source winning; list(title_map.values()), in key insertion order.
Pass2(url_unique) ==
    LET title_map == Pass2Loop(url_unique, 1, <<>>)
    IN [k \in DOMAIN title_map |-> title_map[k].job]

\* deduplicate_jobs(jobs) with Pass 1 starting one record late.
deduplicate_jobs_SkipFirst(jobs) == Pass2(Pass1_SkipFirst(jobs))

\* deduplicate_jobs(jobs)
deduplicate_jobs(jobs) == Pass2(Pass1(jobs))

\* ------------------------------------------------------- seen-ledger filter
\* The ledger (Obsidian vault) is a directory that may not exist; each of
\* its files has a name, a text content, and may fail to open or decode
\* (readable = FALSE: open() or f.read() raises).
ApplyOpen == <<"[","A","p","p","l","y","]","(">>
LinkOpen  == <<"[","L","i","n","k","]","(">>
TrackerPrefix == <<"J","o","b"," ","T","r","a","c","k","e","r">>
TrackerSuffix == <<".","m","d">>
SeparatorPrefix == <<"|","-","-">>

\* vault.glob("Job Tracker*.md")
GlobMatch(name) ==
    /\ Len(name) >= Len(TrackerPrefix) + Len(TrackerSuffix)
    /\ StartsWith(name, TrackerPrefix)
    /\ EndsWith(name, TrackerSuffix)

\* Index of the first ")" of s at or after i; Len(s) + 1 when there is none.
CloseFrom(s, i) ==
    LET closes == {j \in i..Len(s) : s[j] = ")"} IN
    IF closes = {} THEN Len(s) + 1
    ELSE CHOOSE j \in closes : \A k \in closes : j <= k

\* First index after the opening "[Apply](" or "[Link](" of a match that
\* starts at i; 0 when neither label is there.
OpenEnd(s, i) ==
    IF OccursAt(s, ApplyOpen, i) THEN i + Len(ApplyOpen)
    ELSE IF OccursAt(s, LinkOpen, i) THEN i + Len(LinkOpen)
    ELSE 0

\* re.findall(r'\[(?:Apply|Link)\]\(([^)]+)\)', s): the captured groups of
\* the non-overlapping matches, scanning from the left.  At i the pattern
\* matches when a label opens there, at least one character that is not ")"
\* follows, and the run of such characters ends in ")".
RECURSIVE FindAllLoop(_, _)
FindAllLoop(s, i) ==
    IF i > Len(s) THEN {}
    ELSE LET u == OpenEnd(s, i)
             j == CloseFrom(s, u)
         IN IF u # 0 /\ j > u /\ j <= Len(s)
            THEN {SubSeq(s, u, j - 1)} \cup FindAllLoop(s, j + 1)
            ELSE FindAllLoop(s, i + 1)

FindAllUrls(s) == FindAllLoop(s, 1)

\* The loop over a line's parts with every line taken for a table row.
LineUrls_EveryLine(line) ==
    UNION {FindAllUrls(Strip(part)) : part \in Range(Split(line, "|"))}

\* The body of the loop over lines: the urls one line adds.
LineUrls(line) ==
    IF "|" \notin Range(line) \/ StartsWith(line, SeparatorPrefix) THEN {}
    ELSE UNION {FindAllUrls(Strip(part)) : part \in Range(Split(line, "|"))}

\* The ids one tracker file adds to seen.
FileSeen(content) ==
    {Md5Hex12(url) : url \in UNION {LineUrls(line) : line \in Range(Split(content, "\n"))}}

TrackerFiles(vault) == {f \in vault.files : GlobMatch(f.name)}

\* load_seen_jobs(obsidian_path): the set of seen ids, or an exception out of
\* open()/read() when a tracker file cannot be read.
load_seen_jobs(vault) ==
    IF ~vault.exists THEN [raised |-> FALSE, seen |-> {}]
    ELSE IF TrackerFiles(vault) = {} THEN [raised |-> FALSE, seen |-> {}]
    ELSE IF \E f \in TrackerFiles(vault) : ~f.readable
    THEN [raised |-> TRUE, seen |-> {}]
    ELSE [raised |-> FALSE,
          seen |-> UNION {FileSeen(f.content) : f \in TrackerFiles(vault)}]

\* filter_seen_jobs keeping the seen records instead of the unseen ones.
filter_seen_jobs_Inverted(jobs, vault) ==
    LET loaded == load_seen_jobs(vault) IN
    IF loaded.raised THEN [raised |-> TRUE, jobs |-> <<>>]
    ELSE [raised |-> FALSE,
          jobs |-> SelectSeq(jobs, LAMBDA j : j.id \in loaded.seen)]

\* filter_seen_jobs(jobs, obsidian_path): the exception of load_seen_jobs is
\* not caught.
filter_seen_jobs(jobs, vault) ==
    LET loaded == load_seen_jobs(vault) IN
    IF loaded.raised THEN [raised |-> TRUE, jobs |-> <<>>]
    ELSE [raised |-> FALSE,
          jobs |-> SelectSeq(jobs, LAMBDA j : j.id \notin loaded.seen)]

\* ------------------------------------------------------------ input domains
\* A canonical record before its id is assigned.
Raw(title, company, location, description, url, source) ==
    [title |-> title, company |-> company, location |-> location,
     description |-> description, url |-> url, source |-> source, id |-> <<>>]

\* job["id"] = generate_job_id(job), the last step of every normalizer.
AssignId(job) == [job EXCEPT !.id = generate_job_id(job)]

\* posted_date values: ISO-8601 dates and date-times, "" when unknown.
D_Dec31 == <<"2","0","2","4","-","1","2","-","3","1">>
D_Jan27 == <<"2","0","2","5","-","0","1","-","2","7">>
D_Jan27_10h == <<"2","0","2","5","-","0","1","-","2","7","T","1","0",":","0","0",":","0","0">>
D_Feb03 == <<"2","0","2","5","-","0","2","-","0","3">>

\* The record with its posted_date.
Posted(raw, date) == raw @@ [posted_date |-> date]

\* Records the providers deliver in the pipeline runs.  Titles "Ds" and "ds!"
\* share the key "ds", "x" and "s" have keys of their own, "!" has the empty key; urls "a" and "a " are equal
\* once trimmed; "" and " " are URL-less; the url "x--" equals the
\* title-company-location text of the URL-less record titled "x".
PipelineRaw ==
    { Posted(Raw(<<"D","s">>,     <<>>, <<>>, <<>>,    <<"a">>,         "indeed"), D_Jan27),
      Posted(Raw(<<"D","s">>,     <<>>, <<>>, <<"p">>, <<"a">>,         "indeed"), D_Jan27),
      Posted(Raw(<<"d","s","!">>, <<>>, <<>>, <<>>,    <<"b">>,         "linkedin"), D_Feb03),
      Posted(Raw(<<"x">>,         <<>>, <<>>, <<>>,    <<"c">>,         "ziprecruiter"), <<>>),
      Posted(Raw(<<"D","s">>,     <<>>, <<>>, <<>>,    <<"c">>,         "indeed"), D_Jan27_10h),
      Posted(Raw(<<"x">>,         <<>>, <<>>, <<>>,    <<"a"," ">>,     "linkedin"), D_Feb03),
      Posted(Raw(<<"x">>,         <<>>, <<>>, <<>>,    <<>>,            "glassdoor"), D_Jan27),
      Posted(Raw(<<"D","s">>,     <<>>, <<>>, <<>>,    <<"x","-","-">>, "wellfound"), <<>>),
      Posted(Raw(<<"D","s">>,     <<>>, <<>>, <<>>,    <<" ">>,         "builtin"), D_Feb03),
      Posted(Raw(<<"!">>,         <<>>, <<>>, <<>>,    <<"b">>,         "linkedin"), <<>>),
      Posted(Raw(<<"!">>,         <<>>, <<>>, <<>>,    <<"d">>,         "indeed"), D_Jan27),
      Posted(Raw(<<"x">>,         <<>>, <<>>, <<>>,    <<"d">>,         "monster"), D_Dec31),
      Posted(Raw(<<"s">>,         <<>>, <<>>, <<>>,    <<"b">>,         "indeed"), D_Jan27) }

\* Records for the identity generator alone: every combination of the fields
\* it reads or must ignore.
IdUrls == { <<>>, <<" ">>, <<"a">>, <<"a"," ">>, <<"b">>, <<"x">>, <<"x","-","-">> }
IdTitles == { <<"x">>, <<"D","s">> }
IdCompanies == { <<>>, <<"p">> }
IdLocations == { <<>>, <<"q">> }
IdDescriptions == { <<>>, <<"p">> }

IdRaw ==
    { Raw(t, c, l, d, u, "indeed") :
        t \in IdTitles, c \in IdCompanies, l \in IdLocations,
        d \in IdDescriptions, u \in IdUrls }

\* Ledger lines.
Cell(open, url) == <<" ">> \o open \o url \o <<")", " ", "|">>

LedgerLines ==
    { <<"|">> \o Cell(ApplyOpen, <<"a">>),                       \* | [Apply](a) |
      <<"|">> \o Cell(LinkOpen, <<"b">>) \o Cell(ApplyOpen, <<"c">>),
      ApplyOpen \o <<"b", ")">>,                                  \* [Apply](b), no table row
      SeparatorPrefix \o <<"|">> \o Cell(LinkOpen, <<"a">>),      \* |--| [Link](a) |
      <<" ", "|">> \o Cell(LinkOpen, <<"d">>),                    \* indented row
      <<"|">> \o Cell(ApplyOpen, <<"b", ")", "a">>),              \* | [Apply](b)a) |
      <<"|">> \o Cell(ApplyOpen, <<" ", "a">>),                   \* | [Apply]( a) |
      <<"|">> \o Cell(<<"[","a","p","p","l","y","]","(">>, <<"a">>),
      <<"|">> \o Cell(ApplyOpen, <<"a", "|", "b">>),              \* | [Apply](a|b) |
      <<"|">> \o Cell(ApplyOpen, <<>>),                           \* | [Apply]() |
      <<"|", " ", "x", " ", "|">> }                               \* | x |

RECURSIVE JoinLines(_)
JoinLines(lines) ==
    IF Len(lines) = 0 THEN <<>>
    ELSE IF Len(lines) = 1 THEN lines[1]
    ELSE lines[1] \o <<"\n">> \o JoinLines(Tail(lines))

LedgerContents ==
    {JoinLines(ls) : ls \in UNION {[1..n -> LedgerLines] : n \in 1..MaxLines}}

TrackerName == TrackerPrefix \o TrackerSuffix                          \* Job Tracker.md
DatedTrackerName == TrackerPrefix \o <<" ","-"," ","1">> \o TrackerSuffix  \* Job Tracker - 1.md
NotesName == <<"N","o","t","e","s">> \o TrackerSuffix                   \* Notes.md

File(name, readable, content) ==
    [name |-> name, readable |-> readable, content |-> content]

NoVault == [exists |-> FALSE, files |-> {}]
EmptyVault == [exists |-> TRUE, files |-> {}]

\* A second tracker document beside the one under study.
CompanionFiles ==
    { File(DatedTrackerName, TRUE, <<"|">> \o Cell(LinkOpen, <<"b">>)),
      File(DatedTrackerName, FALSE, <<>>) }

LedgerFiles ==
    { File(n, r, c) : n \in {TrackerName, NotesName}, r \in BOOLEAN, c \in LedgerContents }

LedgerVaults ==
    {NoVault, EmptyVault}
      \cup {[exists |-> TRUE, files |-> {f}] : f \in LedgerFiles}
      \cup {[exists |-> TRUE, files |-> {f, g}] : f \in LedgerFiles, g \in CompanionFiles}

\* Ledgers of the pipeline runs.
PipelineVaults ==
    { NoVault,
      EmptyVault,
      [exists |-> TRUE, files |-> {File(NotesName, TRUE, <<"|">> \o Cell(ApplyOpen, <<"a">>))}],
      [exists |-> TRUE, files |-> {File(TrackerName, TRUE, <<"|", " ", "x", " ", "|">>)}],
      [exists |-> TRUE, files |-> {File(TrackerName, TRUE, <<"|">> \o Cell(ApplyOpen, <<"a">>))}],
      [exists |-> TRUE, files |-> {File(TrackerName, TRUE,
            JoinLines(<< <<"|">> \o Cell(LinkOpen, <<"b">>), ApplyOpen \o <<"c", ")">> >>))}],
      [exists |-> TRUE, files |-> {File(TrackerName, TRUE, <<"|">> \o Cell(LinkOpen, <<"x","-","-">>)),
                                   File(DatedTrackerName, TRUE, <<"|">> \o Cell(LinkOpen, <<"d">>))}],
      [exists |-> TRUE, files |-> {File(TrackerName, FALSE, <<"|">> \o Cell(ApplyOpen, <<"a">>))}],
      [exists |-> TRUE, files |-> {File(TrackerName, TRUE, <<"|">> \o Cell(ApplyOpen, <<"a">>)),
                                   File(DatedTrackerName, FALSE, <<>>)}] }

\* ------------------------------------------------------------------ scoring
\* p in s (Python substring test).
Contains(s, p) ==
    \/ Len(p) = 0
    \/ \E i \in 1..(Len(s) - Len(p) + 1) :
          s[i] = p[1] /\ SubSeq(s, i, i + Len(p) - 1) = p

\* Points of one matched skill, the score's ceiling, and the number of
\* matched skills the reason names.
SkillPoints == 5
MaxScore == 100
ReasonCap == 6

\* _FALLBACK_SKILLS
FALLBACK_SKILLS ==
    << <<"p","y","t","h","o","n">>,
      <<"s","q","l">>,
      <<"t","a","b","l","e","a","u">>,
      <<"d","a","t","a"," ","a","n","a","l","y","s","t">>,
      <<"d","a","t","a"," ","s","c","i","e","n","c","e">>,
      <<"d","a","t","a"," ","s","c","i","e","n","t","i","s","t">>,
      <<"m","a","c","h","i","n","e"," ","l","e","a","r","n","i","n","g">>,
      <<"d","e","e","p"," ","l","e","a","r","n","i","n","g">>,
      <<"r","e","s","e","a","r","c","h">>,
      <<"h","e","a","l","t","h","c","a","r","e">>,
      <<"c","l","i","n","i","c","a","l">>,
      <<"e","h","r">>,
      <<"i","n","f","o","r","m","a","t","i","c","s">>,
      <<"a","w","s">>,
      <<"p","y","t","o","r","c","h">>,
      <<"p","a","n","d","a","s">>,
      <<"s","t","a","t","i","s","t","i","c","s">> >>

\* _BONUS_RULES: (keywords_any_match, points)
BONUS_RULES ==
    << [keywords |-> << <<"d","a","t","a"," ","a","n","a","l","y","s","t">>,
                       <<"d","a","t","a"," ","a","n","a","l","y","s","i","s">> >>,
        points |-> 15],
       [keywords |-> << <<"r","e","s","e","a","r","c","h"," ","a","n","a","l","y","s","t">>,
                       <<"r","e","s","e","a","r","c","h"," ","d","a","t","a"," ","a","n","a","l","y","s","t">> >>,
        points |-> 15],
       [keywords |-> << <<"i","n","f","o","r","m","a","t","i","c","s"," ","a","n","a","l","y","s","t">>,
                       <<"h","e","a","l","t","h"," ","i","n","f","o","r","m","a","t","i","c","s">> >>,
        points |-> 15],
       [keywords |-> << <<"c","l","i","n","i","c","a","l"," ","d","a","t","a"," ","a","n","a","l","y","s","t">>,
                       <<"c","l","i","n","i","c","a","l"," ","a","n","a","l","y","s","t">> >>,
        points |-> 15],
       [keywords |-> << <<"d","a","t","a"," ","s","c","i","e","n","t","i","s","t">>,
                       <<"d","a","t","a"," ","s","c","i","e","n","c","e">> >>,
        points |-> 15],
       [keywords |-> << <<"m","a","c","h","i","n","e"," ","l","e","a","r","n","i","n","g"," ","e","n","g","i","n","e","e","r">>,
                       <<"m","l"," ","e","n","g","i","n","e","e","r">> >>,
        points |-> 10],
       [keywords |-> << <<"h","e","a","l","t","h","c","a","r","e">>,
                       <<"c","l","i","n","i","c","a","l">>,
                       <<"m","e","d","i","c","a","l">>,
                       <<"h","e","a","l","t","h"," ","s","y","s","t","e","m">> >>,
        points |-> 10],
       [keywords |-> << <<"e","h","r">>,
                       <<"e","l","e","c","t","r","o","n","i","c"," ","h","e","a","l","t","h"," ","r","e","c","o","r","d">>,
                       <<"e","p","i","c">>,
                       <<"c","e","r","n","e","r">>,
                       <<"o","m","o","p">>,
                       <<"i","2","b","2">>,
                       <<"f","h","i","r">> >>,
        points |-> 10],
       [keywords |-> << <<"r","e","s","e","a","r","c","h">>,
                       <<"s","c","i","e","n","t","i","s","t">> >>,
        points |-> 10],
       [keywords |-> << <<"p","h","d">>,
                       <<"d","o","c","t","o","r","a","l">>,
                       <<"g","r","a","d","u","a","t","e">> >>,
        points |-> 8],
       [keywords |-> << <<"w","e","a","r","a","b","l","e">>,
                       <<"s","e","n","s","o","r">>,
                       <<"i","o","t">>,
                       <<"f","i","t","b","i","t">> >>,
        points |-> 8],
       [keywords |-> << <<"r","e","m","o","t","e">>,
                       <<"h","y","b","r","i","d">> >>,
        points |-> 5] >>

\* candidates: the master list of extract_skills_from_resume
CANDIDATES ==
    << <<"p","y","t","h","o","n">>,
      <<"j","a","v","a">>,
      <<"k","o","t","l","i","n">>,
      <<"c","+","+">>,
      <<"s","q","l">>,
      <<"p","o","s","t","g","r","e","s","q","l">>,
      <<"m","o","n","g","o","d","b">>,
      <<"p","a","n","d","a","s">>,
      <<"n","u","m","p","y">>,
      <<"s","c","i","k","i","t","-","l","e","a","r","n">>,
      <<"s","c","i","p","y">>,
      <<"m","a","c","h","i","n","e"," ","l","e","a","r","n","i","n","g">>,
      <<"d","e","e","p"," ","l","e","a","r","n","i","n","g">>,
      <<"p","y","t","o","r","c","h">>,
      <<"t","e","n","s","o","r","f","l","o","w">>,
      <<"n","e","u","r","a","l"," ","n","e","t","w","o","r","k">>,
      <<"c","n","n">>,
      <<"r","n","n">>,
      <<"l","s","t","m">>,
      <<"t","r","a","n","s","f","o","r","m","e","r">>,
      <<"n","l","p">>,
      <<"n","a","t","u","r","a","l"," ","l","a","n","g","u","a","g","e"," ","p","r","o","c","e","s","s","i","n","g">>,
      <<"l","a","r","g","e"," ","l","a","n","g","u","a","g","e"," ","m","o","d","e","l">>,
      <<"l","l","m">>,
      <<"c","o","m","p","u","t","e","r"," ","v","i","s","i","o","n">>,
      <<"f","a","i","r"," ","m","l">>,
      <<"f","a","i","r","n","e","s","s">>,
      <<"p","r","e","d","i","c","t","i","v","e"," ","m","o","d","e","l","i","n","g">>,
      <<"f","e","a","t","u","r","e"," ","e","n","g","i","n","e","e","r","i","n","g">>,
      <<"s","t","a","t","i","s","t","i","c","a","l"," ","m","o","d","e","l","i","n","g">>,
      <<"s","t","a","t","i","s","t","i","c","s">>,
      <<"r","e","g","r","e","s","s","i","o","n">>,
      <<"c","l","a","s","s","i","f","i","c","a","t","i","o","n">>,
      <<"c","l","u","s","t","e","r","i","n","g">>,
      <<"a","/","b"," ","t","e","s","t","i","n","g">>,
      <<"a","w","s">>,
      <<"l","a","m","b","d","a">>,
      <<"d","y","n","a","m","o","d","b">>,
      <<"e","c","2">>,
      <<"s","3">>,
      <<"d","o","c","k","e","r">>,
      <<"d","i","s","t","r","i","b","u","t","e","d"," ","s","y","s","t","e","m","s">>,
      <<"e","t","l">>,
      <<"d","a","t","a"," ","p","i","p","e","l","i","n","e">>,
      <<"c","l","o","u","d">>,
      <<"t","a","b","l","e","a","u">>,
      <<"m","a","t","p","l","o","t","l","i","b">>,
      <<"s","e","a","b","o","r","n">>,
      <<"e","x","c","e","l">>,
      <<"p","o","w","e","r"," ","b","i">>,
      <<"a","r","c","g","i","s">>,
      <<"g","e","o","s","p","a","t","i","a","l">>,
      <<"e","x","p","l","o","r","a","t","o","r","y"," ","d","a","t","a"," ","a","n","a","l","y","s","i","s">>,
      <<"b","u","s","i","n","e","s","s"," ","i","n","t","e","l","l","i","g","e","n","c","e">>,
      <<"d","a","t","a"," ","v","i","s","u","a","l","i","z","a","t","i","o","n">>,
      <<"h","e","a","l","t","h","c","a","r","e">>,
      <<"c","l","i","n","i","c","a","l">>,
      <<"e","h","r">>,
      <<"e","l","e","c","t","r","o","n","i","c"," ","h","e","a","l","t","h"," ","r","e","c","o","r","d">>,
      <<"o","m","o","p">>,
      <<"f","h","i","r">>,
      <<"h","i","p","a","a">>,
      <<"i","n","f","o","r","m","a","t","i","c","s">>,
      <<"h","e","a","l","t","h"," ","i","n","f","o","r","m","a","t","i","c","s">>,
      <<"c","l","i","n","i","c","a","l"," ","d","a","t","a">>,
      <<"m","e","d","i","c","a","l">>,
      <<"p","a","t","i","e","n","t"," ","d","a","t","a">>,
      <<"a","l","l"," ","o","f"," ","u","s">>,
      <<"r","e","s","e","a","r","c","h">>,
      <<"d","a","t","a"," ","s","c","i","e","n","t","i","s","t">>,
      <<"d","a","t","a"," ","a","n","a","l","y","s","t">>,
      <<"d","a","t","a"," ","s","c","i","e","n","c","e">>,
      <<"i","n","f","o","r","m","a","t","i","c","s"," ","a","n","a","l","y","s","t">>,
      <<"r","e","s","e","a","r","c","h"," ","a","n","a","l","y","s","t">>,
      <<"w","e","a","r","a","b","l","e">>,
      <<"s","e","n","s","o","r">>,
      <<"i","o","t">>,
      <<"f","i","t","b","i","t">>,
      <<"m","o","b","i","l","e">>,
      <<"f","l","u","t","t","e","r">>,
      <<"g","i","t">>,
      <<"d","o","c","k","e","r">>,
      <<"w","e","b"," ","s","c","r","a","p","i","n","g">>,
      <<"m","o","n","g","o","d","b">> >>

\* text = (title + ' ' + description + ' ' + company).lower()
JobText(job) ==
    Lower(job.title \o <<" ">> \o job.description \o <<" ">> \o job.company)

\* The skill loop of score_job: matches, in the order of resume_skills.
RECURSIVE MatchLoop(_, _, _)
MatchLoop(text, resume_skills, i) ==
    IF i > Len(resume_skills) THEN <<>>
    ELSE (IF Contains(text, resume_skills[i]) THEN <<resume_skills[i]>> ELSE <<>>)
            \o MatchLoop(text, resume_skills, i + 1)

\* any(kw in text for kw in keywords)
RuleApplies(text, rule) ==
    \E k \in DOMAIN rule.keywords : Contains(text, rule.keywords[k])

BonusStep_PerKeyword(text, rule) ==
    rule.points * Cardinality({k \in DOMAIN rule.keywords : Contains(text, rule.keywords[k])})

\* One turn of the bonus loop: the points the rule adds to score.
BonusStep(text, rule) ==
    IF RuleApplies(text, rule) THEN rule.points ELSE 0

RECURSIVE BonusLoop(_, _)
BonusLoop(text, i) ==
    IF i > Len(BONUS_RULES) THEN 0
    ELSE BonusStep(text, BONUS_RULES[i]) + BonusLoop(text, i + 1)

\* sep.join(parts)
RECURSIVE Join(_, _)
Join(parts, sep) ==
    IF Len(parts) = 0 THEN <<>>
    ELSE IF Len(parts) = 1 THEN parts[1]
    ELSE parts[1] \o sep \o Join(Tail(parts), sep)

MatchesPrefix == <<"M","a","t","c","h","e","s",":"," ">>
GeneralFit == <<"G","e","n","e","r","a","l"," ","f","i","t">>
CommaSpace == <<",", " ">>

\* matches[:n]
Take(list, n) == SubSeq(list, 1, IF Len(list) < n THEN Len(list) ELSE n)

Reason_Uncapped(matches) ==
    IF Len(matches) > 0 THEN MatchesPrefix \o Join(matches, CommaSpace) ELSE GeneralFit

\* reason = f"Matches: {', '.join(matches[:6])}" if matches else 'General fit'
Reason(matches) ==
    IF Len(matches) > 0
    THEN MatchesPrefix \o Join(Take(matches, ReasonCap), CommaSpace)
    ELSE GeneralFit

\* score_job(job, resume_skills): (score, reason)
score_job(job, resume_skills) ==
    LET text == JobText(job)
        matches == MatchLoop(text, resume_skills, 1)
        score == SkillPoints * Len(matches) + BonusLoop(text, 1)
    IN [score |-> IF score < MaxScore THEN score ELSE MaxScore,
        reason |-> Reason(matches)]

\* The resume behind resume_path: no path given, a path to nothing, a file
\* whose reading or parsing throws, or a file with text.
Resume(kind, text) == [kind |-> kind, text |-> text]

\* load_resume_text(resume_path): "" when the file is missing or its
\* reading throws.
load_resume_text(resume) ==
    IF resume.kind = "missing" THEN <<>>
    ELSE IF resume.kind = "unreadable" THEN <<>>
    ELSE resume.text

\* found = [skill for skill in candidates if skill in text_lower]
RECURSIVE FoundLoop(_, _)
FoundLoop(text_lower, i) ==
    IF i > Len(CANDIDATES) THEN <<>>
    ELSE (IF Contains(text_lower, CANDIDATES[i]) THEN <<CANDIDATES[i]>> ELSE <<>>)
            \o FoundLoop(text_lower, i + 1)

\* Deduplicate while preserving order.
RECURSIVE UniqueLoop(_, _, _)
UniqueLoop(found, i, result) ==
    IF i > Len(found) THEN result
    ELSE IF found[i] \in Range(result) THEN UniqueLoop(found, i + 1, result)
    ELSE UniqueLoop(found, i + 1, Append(result, found[i]))

extract_skills_from_resume_AsFound(resume_text) ==
    FoundLoop(Lower(resume_text), 1)

\* extract_skills_from_resume(resume_text)
extract_skills_from_resume(resume_text) ==
    UniqueLoop(FoundLoop(Lower(resume_text), 1), 1, <<>>)

\* The resume_skills argument: None, or a list.
NoSkills == [given |-> FALSE, list |-> <<>>]
Skills(list) == [given |-> TRUE, list |-> list]

select_skills_WhenNonEmpty(resume_skills, resume) ==
    IF resume_skills.given /\ Len(resume_skills.list) > 0 THEN resume_skills.list
    ELSE IF resume.kind # "none" /\ Len(load_resume_text(resume)) > 0
         THEN extract_skills_from_resume(load_resume_text(resume))
    ELSE FALLBACK_SKILLS

\* The profile score_jobs scores with: the head of score_jobs.
select_skills(resume_skills, resume) ==
    IF resume_skills.given THEN resume_skills.list
    ELSE IF resume.kind # "none"
         THEN LET text == load_resume_text(resume) IN
              IF Len(text) > 0 THEN extract_skills_from_resume(text)
              ELSE FALLBACK_SKILLS
    ELSE FALLBACK_SKILLS

\* job['match_score'] = s; job['match_reason'] = reason
Scored(job, resume_skills) ==
    LET res == score_job(job, resume_skills) IN
    ("match_score" :> res.score) @@ ("match_reason" :> res.reason) @@ job

InsertByScore_TiesFirst(sorted, job) ==
    LET k == Cardinality({i \in DOMAIN sorted : sorted[i].match_score > job.match_score})
    IN SubSeq(sorted, 1, k) \o <<job>> \o SubSeq(sorted, k + 1, Len(sorted))

\* jobs.sort(key=match_score, reverse=True) keeps the input order of equal
\* keys: each job goes behind every job that scores at least as much.
InsertByScore(sorted, job) ==
    LET k == Cardinality({i \in DOMAIN sorted : sorted[i].match_score >= job.match_score})
    IN SubSeq(sorted, 1, k) \o <<job>> \o SubSeq(sorted, k + 1, Len(sorted))

RECURSIVE SortLoop(_, _, _)
SortLoop(jobs, i, sorted) ==
    IF i > Len(jobs) THEN sorted
    ELSE SortLoop(jobs, i + 1, InsertByScore(sorted, jobs[i]))

SortByScore(jobs) == SortLoop(jobs, 1, <<>>)

score_jobs_DropUnmatched(jobs, resume_skills, resume) ==
    LET skills == select_skills(resume_skills, resume)
        scored == [i \in DOMAIN jobs |-> Scored(jobs[i], skills)]
    IN SortByScore(SelectSeq(scored, LAMBDA j : j.match_score > 0))

\* score_jobs(jobs, resume_skills, resume_path)
score_jobs(jobs, resume_skills, resume) ==
    LET skills == select_skills(resume_skills, resume) IN
    SortByScore([i \in DOMAIN jobs |-> Scored(jobs[i], skills)])

\* ------------------------------------------------------ sort by posted date
\* Characters of posted_date strings in code point order.
DateChars == <<"-", "0", "1", "2", "3", "4", "5", "6", "7", "8", "9", ":", "T", "Z">>

CodeRank(c) == CHOOSE n \in DOMAIN DateChars : DateChars[n] = c

\* a < b for Python str: the first differing character decides, a proper
\* prefix is smaller.
RECURSIVE StrLess(_, _)
StrLess(a, b) ==
    IF Len(b) = 0 THEN FALSE
    ELSE IF Len(a) = 0 THEN TRUE
    ELSE IF a[1] = b[1] THEN StrLess(Tail(a), Tail(b))
    ELSE CodeRank(a[1]) < CodeRank(b[1])

InsertByDate_Ascending(sorted, job) ==
    LET k == Cardinality({i \in DOMAIN sorted : ~StrLess(job.posted_date, sorted[i].posted_date)})
    IN SubSeq(sorted, 1, k) \o <<job>> \o SubSeq(sorted, k + 1, Len(sorted))

\* all_jobs.sort(key=posted_date, reverse=True) keeps the order of equal
\* keys: each job goes behind every job whose posted_date is not smaller.
InsertByDate(sorted, job) ==
    LET k == Cardinality({i \in DOMAIN sorted : ~StrLess(sorted[i].posted_date, job.posted_date)})
    IN SubSeq(sorted, 1, k) \o <<job>> \o SubSeq(sorted, k + 1, Len(sorted))

RECURSIVE SortByDateLoop(_, _, _)
SortByDateLoop(jobs, i, sorted) ==
    IF i > Len(jobs) THEN sorted
    ELSE SortByDateLoop(jobs, i + 1, InsertByDate(sorted, jobs[i]))

SortByDate(jobs) == SortByDateLoop(jobs, 1, <<>>)

\* ------------------------------------------------------- regular expressions
\* Python's re as the scrapers use it: a backtracking matcher that tries the
\* alternatives of a pattern in order, a greedy repeat with as many rounds as
\* it can get first, a lazy one with as few.  A pattern is a tree of nodes;
\* Ends gives the positions behind the text a node can match from position
\* i, in the order the matcher tries them.  A pattern compiled with
\* re.IGNORECASE is written in lower case and matched against Lower(text).
Many == -1

WordChars == Range(UpperLetters) \cup Range(LowerLetters) \cup Digits \cup {"_"}

Node(op, set, subs, min, max) == [op |-> op, set |-> set, subs |-> subs, min |-> min, max |-> max]

Set(chars)    == Node("set", chars, <<>>, 0, 0)       \* [...]
NotSet(chars) == Node("notset", chars, <<>>, 0, 0)    \* [^...]
Dot           == NotSet({"\n"})                        \* .
Cat(subs)     == Node("cat", {}, subs, 0, 0)           \* ab
Alt(subs)     == Node("alt", {}, subs, 0, 0)           \* a|b
Rep(sub, min, max)  == Node("rep", {}, <<sub>>, min, max)    \* a{min,max}
Lazy(sub, min, max) == Node("lazy", {}, <<sub>>, min, max)   \* a{min,max}?
Opt(sub)      == Rep(sub, 0, 1)                        \* a?
Star(sub)     == Rep(sub, 0, Many)                     \* a*
Plus(sub)     == Rep(sub, 1, Many)                     \* a+
Bol           == Node("bol", {}, <<>>, 0, 0)           \* ^
Eol           == Node("eol", {}, <<>>, 0, 0)           \* $
WordB         == Node("wordb", {}, <<>>, 0, 0)         \* \b
Lit(text)     == Cat([n \in DOMAIN text |-> Set({text[n]})])
Word          == Set(WordChars)                        \* \w
Space         == Set(Whitespace)                       \* \s
Digit         == Set(Digits)                           \* \d

IsWordAt(s, i) == i >= 1 /\ i <= Len(s) /\ s[i] \in WordChars

RECURSIVE Ends(_, _, _)
RECURSIVE EndsCat(_, _, _, _)
RECURSIVE EndsCatOver(_, _, _, _, _)
RECURSIVE EndsAlt(_, _, _, _)
RECURSIVE EndsRep(_, _, _, _)
RECURSIVE EndsRepOver(_, _, _, _, _)

Ends(node, s, i) ==
    CASE node.op = "set"    -> IF i <= Len(s) /\ s[i] \in node.set THEN <<i + 1>> ELSE <<>>
      [] node.op = "notset" -> IF i <= Len(s) /\ s[i] \notin node.set THEN <<i + 1>> ELSE <<>>
      [] node.op = "bol"    -> IF i = 1 THEN <<i>> ELSE <<>>
      [] node.op = "eol"    -> IF i = Len(s) + 1 \/ (i = Len(s) /\ s[i] = "\n") THEN <<i>> ELSE <<>>
      [] node.op = "wordb"  -> IF IsWordAt(s, i - 1) # IsWordAt(s, i) THEN <<i>> ELSE <<>>
      [] node.op = "cat"    -> EndsCat(node.subs, 1, s, i)
      [] node.op = "alt"    -> EndsAlt(node.subs, 1, s, i)
      [] OTHER              -> EndsRep(node, s, i, 0)

\* subs[k], subs[k+1], ... in a row from position i.
EndsCat(subs, k, s, i) ==
    IF k > Len(subs) THEN <<i>>
    ELSE EndsCatOver(subs, k, s, Ends(subs[k], s, i), 1)

EndsCatOver(subs, k, s, ends, n) ==
    IF n > Len(ends) THEN <<>>
    ELSE EndsCat(subs, k + 1, s, ends[n]) \o EndsCatOver(subs, k, s, ends, n + 1)

EndsAlt(subs, k, s, i) ==
    IF k > Len(subs) THEN <<>>
    ELSE Ends(subs[k], s, i) \o EndsAlt(subs, k + 1, s, i)

\* A repeat that has made count rounds and stands at position i.
EndsRep(node, s, i, count) ==
    LET more == IF node.max = Many \/ count < node.max
                THEN EndsRepOver(node, s, Ends(node.subs[1], s, i), 1, count + 1)
                ELSE <<>>
        stop == IF count >= node.min THEN <<i>> ELSE <<>>
    IN IF node.op = "lazy" THEN stop \o more ELSE more \o stop

EndsRepOver(node, s, ends, n, count) ==
    IF n > Len(ends) THEN <<>>
    ELSE EndsRep(node, s, ends[n], count) \o EndsRepOver(node, s, ends, n + 1, count)

\* A pattern with groups is a row of parts whose borders are the borders of
\* its groups.  Borders gives, for a match that starts at position i, the
\* position behind each part in the first way the matcher finds, <<>> when
\* there is no match at i.
\* Each row of borders with the border e put before it.
Behind(e, rows) ==
    CHOOSE put \in {[m \in DOMAIN all |-> <<e>> \o all[m]] : all \in {rows}} : TRUE

RECURSIVE BordersAll(_, _, _, _)
RECURSIVE BordersOver(_, _, _, _, _)
BordersAll(parts, k, s, i) ==
    IF k > Len(parts) THEN << <<>> >>
    ELSE BordersOver(parts, k, s, Ends(parts[k], s, i), 1)

BordersOver(parts, k, s, ends, n) ==
    IF n > Len(ends) THEN <<>>
    ELSE Behind(ends[n], BordersAll(parts, k + 1, s, ends[n])) \o BordersOver(parts, k, s, ends, n + 1)

Borders(parts, s, i) ==
    LET all == BordersAll(parts, 1, s, i) IN IF all = <<>> THEN <<>> ELSE all[1]

\* re.match(pattern, s): the pattern matches at the start of s.
ReMatch(parts, s) == Borders(parts, s, 1) # <<>>

\* re.search(pattern, s): the leftmost position the pattern matches at, 0
\* when there is none.
SearchStart(parts, s) ==
    IF \E i \in 1..(Len(s) + 1) : Borders(parts, s, i) # <<>>
    THEN CHOOSE i \in 1..(Len(s) + 1) :
            /\ Borders(parts, s, i) # <<>>
            /\ \A j \in 1..(i - 1) : Borders(parts, s, j) = <<>>
    ELSE 0

ReSearch(parts, s) == SearchStart(parts, s) # 0

\* The text between the borders of part k of the match found at start, cut
\* from the text t (the text searched, or its original when the search ran
\* on the lowered text).
PartText(b, start, k, t) == SubSeq(t, IF k = 1 THEN start ELSE b[k - 1], b[k] - 1)

GroupText(parts, s, start, k, t) == PartText(Borders(parts, s, start), start, k, t)

\* ----------------------------------------------------- provider normalizers
\* Python values of the fields of a raw provider record.  A raw record maps
\* each of its provider's keys to a value; Absent marks a key the record does
\* not have.  The text of a date is its isoformat(), of an int its digits.
Absent     == [kind |-> "absent", text |-> <<>>]
None       == [kind |-> "none",   text |-> <<>>]
NaN        == [kind |-> "nan",    text |-> <<>>]
True       == [kind |-> "true",   text |-> <<>>]
False      == [kind |-> "false",  text |-> <<>>]
Str(text)  == [kind |-> "str",    text |-> text]
DateObj(iso) == [kind |-> "date", text |-> iso]
IntObj(digits) == [kind |-> "int", text |-> digits]

\* row.get(key)
Get(row, key) == IF row[key] = Absent THEN None ELSE row[key]

\* row.get(key, default)
GetOr(row, key, default) == IF row[key] = Absent THEN default ELSE row[key]

\* bool(value): None, False, "" and 0 are false, everything else is true,
\* float('nan') included.
Truthy(v) ==
    CASE v.kind = "none"  -> FALSE
      [] v.kind = "false" -> FALSE
      [] v.kind = "str"   -> v.text # <<>>
      [] v.kind = "int"   -> v.text # <<"0">>
      [] OTHER            -> TRUE

\* a or b
Or(a, b) == IF Truthy(a) THEN a ELSE b

\* str(value)
PyStr(v) ==
    CASE v.kind = "none"  -> <<"N","o","n","e">>
      [] v.kind = "nan"   -> <<"n","a","n">>
      [] v.kind = "true"  -> <<"T","r","u","e">>
      [] v.kind = "false" -> <<"F","a","l","s","e">>
      [] OTHER            -> v.text

\* A field of a returned record that holds no string is written as one
\* element that is no character: the name of its Python type.
NoneValue == <<"NoneType">>
NanValue  == <<"float">>

\* The field a returned record holds for the value v.
Field(v) ==
    CASE v.kind = "str"  -> v.text
      [] v.kind = "none" -> NoneValue
      [] v.kind = "nan"  -> NanValue
      [] OTHER           -> <<v.kind>>

IsString(field) == \A n \in DOMAIN field : field[n] \notin {"NoneType", "float", "true", "false", "date", "int"}

RemoteWord == <<"r","e","m","o","t","e">>

\* _str(val) of jobspy_scraper: None and NaN become "", the rest str(val).
ToStr(val) ==
    IF val.kind \in {"none", "nan"} THEN <<>> ELSE PyStr(val)

\* int(value) succeeds: an int, a bool, or a string of decimal digits.
IntOk(v) ==
    \/ v.kind \in {"int", "true", "false"}
    \/ v.kind = "str" /\ v.text # <<>> /\ \A n \in DOMAIN v.text : v.text[n] \in Digits

RECURSIVE DropLeadingZeros(_)
DropLeadingZeros(digits) ==
    IF Len(digits) > 1 /\ digits[1] = "0" THEN DropLeadingZeros(Tail(digits)) ELSE digits

\* The digits of int(value).
IntDigits(v) ==
    CASE v.kind = "true"  -> <<"1">>
      [] v.kind = "false" -> <<"0">>
      [] OTHER            -> DropLeadingZeros(v.text)

\* f"{n:,}": a comma before every group of three digits counted from the right.
RECURSIVE Thousands(_)
Thousands(digits) ==
    IF Len(digits) <= 3 THEN digits
    ELSE Thousands(SubSeq(digits, 1, Len(digits) - 3)) \o <<",">> \o SubSeq(digits, Len(digits) - 2, Len(digits))

Money(v) == <<"$">> \o Thousands(IntDigits(v))

\* The en dash (U+2013) of the salary f-strings, written with a character
\* that stands in no other text.
EnDash == "~"

\* The three salary phrases both structured providers build; unit is the
\* interval or period label as the f-string prints it.  A failing int() is
\* caught and gives "".
SalaryText(min, max, unit) ==
    IF Truthy(min) /\ Truthy(max)
    THEN IF IntOk(min) /\ IntOk(max)
         THEN Strip(Money(min) \o <<EnDash>> \o Money(max) \o <<" ">> \o unit)
         ELSE <<>>
    ELSE IF Truthy(min)
    THEN IF IntOk(min) THEN Strip(Money(min) \o <<"+", " ">> \o unit) ELSE <<>>
    ELSE IF Truthy(max)
    THEN IF IntOk(max) THEN Strip(<<"u","p"," ","t","o"," ">> \o Money(max) \o <<" ">> \o unit) ELSE <<>>
    ELSE <<>>

\* _format_salary(row) of jobspy_scraper
format_salary_jobspy(row) ==
    SalaryText(Get(row, "min_amount"), Get(row, "max_amount"),
               PyStr(Or(Get(row, "interval"), Str(<<>>))))

\* posted_date of normalize_jobspy_row: isoformat() of a truthy value that
\* has one, str() of any other truthy value, "" otherwise.
posted_date_jobspy(value) ==
    IF Truthy(value) /\ value.kind = "date" THEN value.text
    ELSE IF Truthy(value) THEN PyStr(value)
    ELSE <<>>

\* remote of normalize_jobspy_row
jobspy_remote(row, title, location) ==
    \/ Truthy(Get(row, "is_remote"))
    \/ Contains(Lower(title \o <<" ">> \o location), RemoteWord)

\* normalize_jobspy_row(row); no statement of it can raise for the values above.
normalize_jobspy_row(row) ==
    LET url         == ToStr(Or(Get(row, "job_url"), Get(row, "job_url_direct")))
        title       == ToStr(Get(row, "title"))
        company     == ToStr(Get(row, "company"))
        location    == ToStr(Get(row, "location"))
        description == ToStr(Get(row, "description"))
        site        == ToStr(Get(row, "site"))
        job == [ title |-> title, company |-> company, location |-> location,
                 description |-> description, url |-> url,
                 posted_date |-> posted_date_jobspy(Get(row, "date_posted")),
                 salary |-> format_salary_jobspy(row),
                 employment_type |-> ToStr(Get(row, "job_type")),
                 experience_level |-> <<>>,
                 remote |-> jobspy_remote(row, title, location),
                 source |-> site ]
    IN [raised |-> FALSE, job |-> job @@ [id |-> generate_job_id(job)]]

\* text.replace(old, new) for single characters.
Replace(text, old, new) == [n \in DOMAIN text |-> IF text[n] = old THEN new ELSE text[n]]

\* value.lower(), value + " " and ", ".join(...) need a str.
IsStr(v) == v.kind = "str"

\* _location(job): city and state joined by ", ", else the country.
jsearch_location_raises(job) ==
    LET city  == Or(Get(job, "job_city"), Str(<<>>))
        state == Or(Get(job, "job_state"), Str(<<>>))
    IN \/ Truthy(city) /\ ~IsStr(city)
       \/ Truthy(state) /\ ~IsStr(state)

jsearch_location(job) ==
    LET city  == Or(Get(job, "job_city"), Str(<<>>))
        state == Or(Get(job, "job_state"), Str(<<>>))
        loc   == IF Truthy(city) /\ Truthy(state) THEN Str(city.text \o CommaSpace \o state.text)
                 ELSE IF Truthy(city) THEN city
                 ELSE IF Truthy(state) THEN state
                 ELSE Str(<<>>)
    IN IF Truthy(loc) THEN loc ELSE Or(Get(job, "job_country"), Str(<<>>))

\* {"year": "yr", "hour": "hr", "month": "mo"}.get(period, period)
period_label(period) ==
    CASE period = <<"y","e","a","r">>     -> <<"y","r">>
      [] period = <<"h","o","u","r">>     -> <<"h","r">>
      [] period = <<"m","o","n","t","h">> -> <<"m","o">>
      [] OTHER                            -> period

\* _format_salary(job) of jsearch_scraper; a period that is no str fails in
\* .lower() and the failure is caught.
format_salary_jsearch(job) ==
    LET period == Or(Get(job, "job_salary_period"), Str(<<>>)) IN
    IF ~IsStr(period) THEN <<>>
    ELSE SalaryText(Get(job, "job_min_salary"), Get(job, "job_max_salary"),
                    period_label(Lower(period.text)))

\* remote of normalize_jsearch_result
jsearch_remote(job, title, description) ==
    \/ Truthy(Get(job, "job_is_remote"))
    \/ Contains(Lower(title \o <<" ">> \o description), RemoteWord)

\* normalize_jsearch_result(job).  It raises when a value that is no str
\* reaches a text operation: title + " " + description (evaluated only when
\* the flag is false), .lower() of the employment type and the publisher,
\* the join of _location, url.strip() of generate_job_id.
normalize_jsearch_result(job) ==
    LET title       == Or(Get(job, "job_title"), Str(<<>>))
        company     == Or(Get(job, "employer_name"), Str(<<>>))
        description == Or(Get(job, "job_description"), Str(<<>>))
        url         == Or(Get(job, "job_apply_link"), Or(Get(job, "job_google_link"), Str(<<>>)))
        posted_date == Or(Get(job, "job_posted_at_datetime_utc"), Str(<<>>))
        flag        == Truthy(Get(job, "job_is_remote"))
        employment  == Or(Get(job, "job_employment_type"), Str(<<>>))
        publisher   == Or(Get(job, "job_publisher"), Str(<<"j","s","e","a","r","c","h">>))
        location    == jsearch_location(job)
        raises ==
            \/ ~flag /\ (~IsStr(title) \/ ~IsStr(description))
            \/ ~IsStr(employment)
            \/ ~IsStr(publisher)
            \/ jsearch_location_raises(job)
            \/ ~IsStr(url)
        result == [ title |-> Field(title), company |-> Field(company),
                    location |-> Field(location), description |-> Field(description),
                    url |-> Field(url), posted_date |-> Field(posted_date),
                    salary |-> format_salary_jsearch(job),
                    employment_type |-> Replace(Lower(employment.text), "_", " "),
                    experience_level |-> <<>>,
                    remote |-> jsearch_remote(job, PyStr(title), PyStr(description)),
                    source |-> Lower(publisher.text) ]
        hashed == [ url |-> url.text, title |-> PyStr(title),
                    company |-> PyStr(company), location |-> PyStr(location) ]
    IN IF raises THEN [raised |-> TRUE, job |-> <<>>]
       ELSE [raised |-> FALSE, job |-> result @@ [id |-> generate_job_id(hashed)]]

\* ------------------------------------------------- free-text provider (tavily)
\* str.upper() on one character.
UpperChar(c) ==
    IF \E n \in DOMAIN LowerLetters : LowerLetters[n] = c
    THEN UpperLetters[CHOOSE n \in DOMAIN LowerLetters : LowerLetters[n] = c]
    ELSE c

IsLetter(c) == c \in Range(UpperLetters) \cup Range(LowerLetters)

\* str.title(): a letter is upper-cased behind a non-letter, lower-cased
\* behind a letter.
Title(s) ==
    [n \in DOMAIN s |-> IF n > 1 /\ IsLetter(s[n - 1]) THEN LowerChar(s[n]) ELSE UpperChar(s[n])]

\* s.rstrip(chars)
RECURSIVE RStrip(_, _)
RStrip(s, chars) ==
    IF Len(s) > 0 /\ s[Len(s)] \in chars THEN RStrip(SubSeq(s, 1, Len(s) - 1), chars) ELSE s

\* s.find(p) + 1: the first position p occurs at, 0 when it does not.
IndexOf(s, p) ==
    IF \E i \in 1..Len(s) : OccursAt(s, p, i)
    THEN CHOOSE i \in 1..Len(s) : OccursAt(s, p, i) /\ \A j \in 1..(i - 1) : ~OccursAt(s, p, j)
    ELSE 0

\* s.split(sep) for a separator text.
RECURSIVE SplitOn(_, _)
SplitOn(s, sep) ==
    LET i == IndexOf(s, sep) IN
    IF i = 0 THEN <<s>>
    ELSE <<SubSeq(s, 1, i - 1)>> \o SplitOn(SubSeq(s, i + Len(sep), Len(s)), sep)

SiteSuffixes ==
    << <<" ","|"," ","L","i","n","k","e","d","I","n">>, <<" ","-"," ","I","n","d","e","e","d">>, <<" ","|"," ","I","n","d","e","e","d",".","c","o","m">>, <<" ","-"," ","G","l","a","s","s","d","o","o","r">>,
       <<" ","|"," ","G","l","a","s","s","d","o","o","r">>, <<" ","|"," ","B","u","i","l","t"," ","I","n">>, <<" ","|"," ","W","e","l","l","f","o","u","n","d">> >>

\* for suffix in [...]: if title.endswith(suffix): title = title[:-len(suffix)]
RECURSIVE StripSuffixes(_, _)
StripSuffixes(title, k) ==
    IF k > Len(SiteSuffixes) THEN title
    ELSE IF EndsWith(title, SiteSuffixes[k])
         THEN StripSuffixes(SubSeq(title, 1, Len(title) - Len(SiteSuffixes[k])), k + 1)
         ELSE StripSuffixes(title, k + 1)

TitleSeparators == << <<" ","-"," ">>, <<" ","a","t"," ">> >>

\* result.get(key, "") of a key that holds a str or is absent.
TextOf(result, key) == GetOr(result, key, Str(<<>>)).text

\* extract_job_title(result)
extract_job_title(result) ==
    LET title == StripSuffixes(TextOf(result, "title"), 1) IN
    IF Contains(title, TitleSeparators[1]) THEN Strip(SplitOn(title, TitleSeparators[1])[1])
    ELSE IF Contains(title, TitleSeparators[2]) THEN Strip(SplitOn(title, TitleSeparators[2])[1])
    ELSE Strip(title)

\* re.sub(r"-\d+$", "", slug)
JobIdPattern == << Cat(<<Lit(<<"-">>), Plus(Digit), Eol>>) >>

DropJobId(slug) ==
    LET start == SearchStart(JobIdPattern, slug) IN
    IF start = 0 THEN slug
    ELSE SubSeq(slug, 1, start - 1) \o SubSeq(slug, Borders(JobIdPattern, slug, start)[1], Len(slug))

\* r"^\d|^(remote|boston|new york|san francisco|chicago)"
PlacePattern ==
    << Alt(<< Cat(<<Bol, Digit>>),
              Cat(<<Bol, Alt(<<Lit(<<"r","e","m","o","t","e">>), Lit(<<"b","o","s","t","o","n">>), Lit(<<"n","e","w"," ","y","o","r","k">>),
                               Lit(<<"s","a","n"," ","f","r","a","n","c","i","s","c","o">>), Lit(<<"c","h","i","c","a","g","o">>)>>)>>) >>) >>

\* r"\bat\s+([A-Z][A-Za-z0-9&'\-,\. ]{2,50})(?:\s*[\|\n\(]|$)"
CompanyChars ==
    Range(UpperLetters) \cup Range(LowerLetters) \cup Digits \cup {"&", "'", "-", ",", ".", " "}

AtCompanyPattern ==
    << Cat(<<WordB, Lit(<<"a","t">>), Plus(Space)>>),
       Cat(<<Set(Range(UpperLetters)), Rep(Set(CompanyChars), 2, 50)>>),
       Alt(<< Cat(<<Star(Space), Set({"|", "\n", "("})>>), Eol >>) >>

\* r"least|years?|experience|remote|boston|least|all|our|the\b|a\b"
NotCompanyPattern ==
    << Alt(<< Lit(<<"l","e","a","s","t">>), Cat(<<Lit(<<"y","e","a","r">>), Opt(Lit(<<"s">>))>>), Lit(<<"e","x","p","e","r","i","e","n","c","e">>),
              Lit(<<"r","e","m","o","t","e">>), Lit(<<"b","o","s","t","o","n">>), Lit(<<"l","e","a","s","t">>), Lit(<<"a","l","l">>), Lit(<<"o","u","r">>),
              Cat(<<Lit(<<"t","h","e">>), WordB>>), Cat(<<Lit(<<"a">>), WordB>>) >>) >>

\* r"\$|http|jobs?|remote|apply|indeed|glassdoor|linkedin|\d{5}|boston|\bthe\b|\ba\b|additional|full job"
NotCompanyLinePattern ==
    << Alt(<< Lit(<<"$">>), Lit(<<"h","t","t","p">>), Cat(<<Lit(<<"j","o","b">>), Opt(Lit(<<"s">>))>>), Lit(<<"r","e","m","o","t","e">>),
              Lit(<<"a","p","p","l","y">>), Lit(<<"i","n","d","e","e","d">>), Lit(<<"g","l","a","s","s","d","o","o","r">>), Lit(<<"l","i","n","k","e","d","i","n">>),
              Rep(Digit, 5, 5), Lit(<<"b","o","s","t","o","n">>), Cat(<<WordB, Lit(<<"t","h","e">>), WordB>>),
              Cat(<<WordB, Lit(<<"a">>), WordB>>), Lit(<<"a","d","d","i","t","i","o","n","a","l">>), Lit(<<"f","u","l","l"," ","j","o","b">>) >>) >>

\* The company named by the LinkedIn job url, <<>> when the url names none.
CompanyFromSlug(url) ==
    LET parts == SplitOn(RStrip(url, {"/"}), <<"/">>)
        slug  == DropJobId(parts[Len(parts)])
        at    == IndexOf(slug, <<"-","a","t","-">>)
    IN IF at = 0 THEN <<>>
       ELSE Title(Replace(SubSeq(slug, at + 4, Len(slug)), "-", " "))

SlugNamesCompany(url) ==
    /\ Contains(url, <<"l","i","n","k","e","d","i","n",".","c","o","m","/","j","o","b","s","/","v","i","e","w","/">>)
    /\ LET parts == SplitOn(RStrip(url, {"/"}), <<"/">>)
       IN Contains(DropJobId(parts[Len(parts)]), <<"-","a","t","-">>)

\* The last part of the title behind the separator, when it can be a company.
TitleCandidate(clean_title, sep) ==
    LET parts == SplitOn(clean_title, sep) IN Strip(parts[Len(parts)])

TitleNamesCompany(clean_title, sep) ==
    /\ Contains(clean_title, sep)
    /\ LET candidate == TitleCandidate(clean_title, sep)
       IN /\ candidate # <<>>
          /\ Len(candidate) < 60
          /\ ~ReMatch(PlacePattern, Lower(candidate))

\* The "at Company" phrase of the page text.
AtCandidate(full_text) ==
    LET start == SearchStart(AtCompanyPattern, full_text)
    IN RStrip(Strip(GroupText(AtCompanyPattern, full_text, start, 2, full_text)), {".", ","})

AtNamesCompany(full_text) ==
    /\ ReSearch(AtCompanyPattern, full_text)
    /\ ~ReSearch(NotCompanyPattern, Lower(AtCandidate(full_text)))

\* The first of the first 15 lines that can be a company name.
IsCompanyLine(line) ==
    /\ 5 < Len(line)
    /\ Len(line) < 60
    /\ line[1] \in Range(UpperLetters)
    /\ ~ReSearch(NotCompanyLinePattern, Lower(line))

RECURSIVE FirstCompanyLine(_, _)
FirstCompanyLine(lines, k) ==
    IF k > Len(lines) \/ k > 15 THEN <<>>
    ELSE IF IsCompanyLine(Strip(lines[k])) THEN Strip(lines[k])
    ELSE FirstCompanyLine(lines, k + 1)

\* raw_content or ""
RawContent(result) == Or(Get(result, "raw_content"), Str(<<>>)).text

\* extract_company(result)
extract_company(result) ==
    LET url         == TextOf(result, "url")
        content     == TextOf(result, "content")
        clean_title == StripSuffixes(TextOf(result, "title"), 1)
        raw         == RawContent(result)
        full_text   == content \o <<"\n">> \o raw
    IN IF SlugNamesCompany(url) THEN CompanyFromSlug(url)
       ELSE IF TitleNamesCompany(clean_title, TitleSeparators[1]) THEN TitleCandidate(clean_title, TitleSeparators[1])
       ELSE IF TitleNamesCompany(clean_title, TitleSeparators[2]) THEN TitleCandidate(clean_title, TitleSeparators[2])
       ELSE IF AtNamesCompany(full_text) THEN AtCandidate(full_text)
       ELSE FirstCompanyLine(Split(IF raw # <<>> THEN raw ELSE content, "\n"), 1)

\* The four patterns of extract_location, compiled with re.IGNORECASE and so
\* written in lower case; each is a row of parts, LocationGroup names the
\* part that is group 1.
\*   r"(?:location|where)\s*[:\-]\s*(.+?)(?:\n|\.|\|)"
\*   r"((?:Remote|Hybrid|On-site)\s*(?:in\s+)?[\w\s,]+(?:,\s*[A-Z]{2})?)"
\*   r"([\w\s]+,\s*[A-Z]{2}\s*\d{5})"
\*   r"([\w\s]+,\s*[A-Z]{2})(?:\s|\.|\n|\|)"
LowerSet == Set(Range(LowerLetters))

LocationPatterns ==
    << << Cat(<<Alt(<<Lit(<<"l","o","c","a","t","i","o","n">>), Lit(<<"w","h","e","r","e">>)>>), Star(Space), Set({":", "-"}), Star(Space)>>),
          Lazy(Dot, 1, Many),
          Alt(<<Lit(<<"\n">>), Lit(<<".">>), Lit(<<"|">>)>>) >>,
       << Cat(<<Alt(<<Lit(<<"r","e","m","o","t","e">>), Lit(<<"h","y","b","r","i","d">>), Lit(<<"o","n","-","s","i","t","e">>)>>), Star(Space),
                Opt(Cat(<<Lit(<<"i","n">>), Plus(Space)>>)),
                Plus(Set(WordChars \cup Whitespace \cup {","})),
                Opt(Cat(<<Lit(<<",">>), Star(Space), Rep(LowerSet, 2, 2)>>))>>) >>,
       << Cat(<<Plus(Set(WordChars \cup Whitespace)), Lit(<<",">>), Star(Space), Rep(LowerSet, 2, 2),
                Star(Space), Rep(Digit, 5, 5)>>) >>,
       << Cat(<<Plus(Set(WordChars \cup Whitespace)), Lit(<<",">>), Star(Space), Rep(LowerSet, 2, 2)>>),
          Alt(<<Space, Lit(<<".">>), Lit(<<"\n">>), Lit(<<"|">>)>>) >> >>

LocationGroup == <<2, 1, 1, 1>>

\* loc = match.group(1).strip() of pattern k, <<>> when it does not match.
LocationMatch(content, k) ==
    LET start == SearchStart(LocationPatterns[k], Lower(content))
    IN Strip(GroupText(LocationPatterns[k], Lower(content), start, LocationGroup[k], content))

RECURSIVE LocationLoop(_, _)
LocationLoop(content, k) ==
    IF k > Len(LocationPatterns) THEN <<>>
    ELSE IF ReSearch(LocationPatterns[k], Lower(content)) /\ Len(LocationMatch(content, k)) < 80
         THEN LocationMatch(content, k)
         ELSE LocationLoop(content, k + 1)

\* content + " " + (raw_content or "")
PageText(result) == TextOf(result, "content") \o <<" ">> \o RawContent(result)

\* extract_location(result)
extract_location(result) == LocationLoop(PageText(result), 1)

\* The two patterns of extract_salary, compiled with re.IGNORECASE and so
\* written in lower case.  Of the dash class [-...] only "-" is written: its
\* other members are no ASCII characters.
\*   r"\$[\d,]+(?:k|\s*K)?\s*[-...]\s*\$[\d,]+(?:k|\s*K)?(?:\s*(?:per\s+)?(?:year|yr|annually|a\s+year))?"
\*   r"\$[\d,]+(?:k|\s*K)?(?:\s*(?:per\s+)?(?:year|yr|annually|a\s+year|hour|hr))"
Amount ==
    Cat(<<Lit(<<"$">>), Plus(Set(Digits \cup {","})),
          Opt(Alt(<<Lit(<<"k">>), Cat(<<Star(Space), Lit(<<"k">>)>>)>>))>>)

AYear == Cat(<<Lit(<<"a">>), Plus(Space), Lit(<<"y","e","a","r">>)>>)

SalaryPatterns ==
    << << Cat(<<Amount, Star(Space), Set({"-"}), Star(Space), Amount,
                Opt(Cat(<<Star(Space), Opt(Cat(<<Lit(<<"p","e","r">>), Plus(Space)>>)),
                          Alt(<<Lit(<<"y","e","a","r">>), Lit(<<"y","r">>), Lit(<<"a","n","n","u","a","l","l","y">>), AYear>>)>>))>>) >>,
       << Cat(<<Amount,
                Cat(<<Star(Space), Opt(Cat(<<Lit(<<"p","e","r">>), Plus(Space)>>)),
                      Alt(<<Lit(<<"y","e","a","r">>), Lit(<<"y","r">>), Lit(<<"a","n","n","u","a","l","l","y">>), AYear,
                            Lit(<<"h","o","u","r">>), Lit(<<"h","r">>)>>)>>)>>) >> >>

RECURSIVE SalaryLoop(_, _)
SalaryLoop(content, k) ==
    IF k > Len(SalaryPatterns) THEN <<>>
    ELSE LET start == SearchStart(SalaryPatterns[k], Lower(content)) IN
         IF start # 0
         THEN Strip(GroupText(SalaryPatterns[k], Lower(content), start, 1, content))
         ELSE SalaryLoop(content, k + 1)

\* extract_salary(result)
extract_salary(result) == SalaryLoop(PageText(result), 1)

\* detect_source(url): the first domain of the map the url holds.
detect_source(url) ==
    IF Contains(url, <<"l","i","n","k","e","d","i","n",".","c","o","m">>) THEN "linkedin"
    ELSE IF Contains(url, <<"i","n","d","e","e","d",".","c","o","m">>) THEN "indeed"
    ELSE IF Contains(url, <<"g","l","a","s","s","d","o","o","r",".","c","o","m">>) THEN "glassdoor"
    ELSE IF Contains(url, <<"b","u","i","l","t","i","n",".","c","o","m">>) THEN "builtin"
    ELSE IF Contains(url, <<"w","e","l","l","f","o","u","n","d",".","c","o","m">>) THEN "wellfound"
    ELSE "other"

\* reject_url_patterns, searched in the lowered url.
RejectUrlPatterns ==
    << << Lit(<<"i","n","d","e","e","d",".","c","o","m","/","q","-">>) >>,
       << Lit(<<"i","n","d","e","e","d",".","c","o","m","/","j","o","b","s","?">>) >>,
       << Lit(<<"i","n","d","e","e","d",".","c","o","m","/","m","/">>) >>,
       << Cat(<<Lit(<<"g","l","a","s","s","d","o","o","r",".","c","o","m","/","j","o","b","/">>), Star(Dot), Lit(<<"s","r","c","h","_">>)>>) >>,
       << Lit(<<"g","l","a","s","s","d","o","o","r",".","c","o","m","/","j","o","b","s","/">>) >>,
       << Lit(<<"l","i","n","k","e","d","i","n",".","c","o","m","/","j","o","b","s","/","s","e","a","r","c","h","/">>) >>,
       << Cat(<<Lit(<<"l","i","n","k","e","d","i","n",".","c","o","m","/","j","o","b","s","/">>), Plus(Set(Range(LowerLetters) \cup {"-"})), Lit(<<"j","o","b","s">>)>>) >>,
       << Cat(<<Lit(<<"w","e","l","l","f","o","u","n","d",".","c","o","m","/","j","o","b","s">>), Eol>>) >>,
       << Lit(<<"b","u","i","l","t","i","n",".","c","o","m","/","j","o","b","s">>) >> >>

\* reject_title_patterns, searched in the lowered title.
\*   r"^\d+\s+\w"                          r"\bjobs? in\b.*(remote|boston|ma)"
\*   r"\bjob openings? from\b"             r"\bjobs?,?\s+employment\b"
\*   r"^flexible .+ jobs?$"                r"^remote .+ jobs? in\b"
\*   r"browse \d+"                         r"search .+ jobs? in\b"
Jobs == Cat(<<Lit(<<"j","o","b">>), Opt(Lit(<<"s">>))>>)

RejectTitlePatterns ==
    << << Cat(<<Bol, Plus(Digit), Plus(Space), Word>>) >>,
       << Cat(<<WordB, Jobs, Lit(<<" ","i","n">>), WordB, Star(Dot),
                Alt(<<Lit(<<"r","e","m","o","t","e">>), Lit(<<"b","o","s","t","o","n">>), Lit(<<"m","a">>)>>)>>) >>,
       << Cat(<<WordB, Lit(<<"j","o","b"," ","o","p","e","n","i","n","g">>), Opt(Lit(<<"s">>)), Lit(<<" ","f","r","o","m">>), WordB>>) >>,
       << Cat(<<WordB, Jobs, Opt(Lit(<<",">>)), Plus(Space), Lit(<<"e","m","p","l","o","y","m","e","n","t">>), WordB>>) >>,
       << Cat(<<Bol, Lit(<<"f","l","e","x","i","b","l","e"," ">>), Plus(Dot), Lit(<<" ">>), Jobs, Eol>>) >>,
       << Cat(<<Bol, Lit(<<"r","e","m","o","t","e"," ">>), Plus(Dot), Lit(<<" ">>), Jobs, Lit(<<" ","i","n">>), WordB>>) >>,
       << Cat(<<Lit(<<"b","r","o","w","s","e"," ">>), Plus(Digit)>>) >>,
       << Cat(<<Lit(<<"s","e","a","r","c","h"," ">>), Plus(Dot), Lit(<<" ">>), Jobs, Lit(<<" ","i","n">>), WordB>>) >> >>

is_individual_job_posting_AnyResult(result) == TRUE

\* is_individual_job_posting(result)
is_individual_job_posting(result) ==
    /\ \A k \in DOMAIN RejectUrlPatterns : ~ReSearch(RejectUrlPatterns[k], Lower(TextOf(result, "url")))
    /\ \A k \in DOMAIN RejectTitlePatterns : ~ReSearch(RejectTitlePatterns[k], Lower(TextOf(result, "title")))

\* remote of normalize_tavily_result
tavily_remote(result, title, location) ==
    Contains(Lower(title \o <<" ">> \o location \o <<" ">> \o TextOf(result, "content")), RemoteWord)

\* normalize_tavily_result(result).  A title, url or content that is None
\* fails in the first text operation on it (endswith, in, +).
normalize_tavily_result(result) ==
    IF \E key \in {"title", "url", "content"} : result[key] = None
    THEN [raised |-> TRUE, job |-> <<>>]
    ELSE LET url      == TextOf(result, "url")
             title    == extract_job_title(result)
             location == extract_location(result)
             job == [ title |-> title, company |-> extract_company(result),
                      location |-> location,
                      description |-> TextOf(result, "content"),
                      url |-> url,
                      posted_date |-> Field(GetOr(result, "published_date", Str(<<>>))),
                      salary |-> extract_salary(result),
                      employment_type |-> <<>>,
                      experience_level |-> <<>>,
                      remote |-> tavily_remote(result, title, location),
                      source |-> detect_source(url) ]
         IN [raised |-> FALSE, job |-> job @@ [id |-> generate_job_id(job)]]

\* -------------------------------------------------------------- date parsing
\* int(text) of a text of decimal digits.
DigitChars == <<"0", "1", "2", "3", "4", "5", "6", "7", "8", "9">>

DigitValue(c) == (CHOOSE n \in DOMAIN DigitChars : DigitChars[n] = c) - 1

RECURSIVE NumberOf(_)
NumberOf(digits) ==
    IF Len(digits) = 0 THEN 0
    ELSE 10 * NumberOf(SubSeq(digits, 1, Len(digits) - 1)) + DigitValue(digits[Len(digits)])

\* A text matched in any case, as under re.IGNORECASE.
LitCI(text) == Cat([n \in DOMAIN text |-> Set({LowerChar(text[n]), UpperChar(text[n])})])

Between(low, high) == Set({DigitChars[n] : n \in (low + 1)..(high + 1)})

\* The patterns datetime.strptime builds for the directives of the formats.
Dir_Y == Rep(Digit, 4, 4)
Dir_m == Alt(<<Cat(<<Lit(<<"1">>), Between(0, 2)>>), Cat(<<Lit(<<"0">>), Between(1, 9)>>), Between(1, 9)>>)
Dir_d == Alt(<<Cat(<<Lit(<<"3">>), Between(0, 1)>>), Cat(<<Between(1, 2), Digit>>),
               Cat(<<Lit(<<"0">>), Between(1, 9)>>), Between(1, 9), Cat(<<Lit(<<" ">>), Between(1, 9)>>)>>)
Dir_H == Alt(<<Cat(<<Lit(<<"2">>), Between(0, 3)>>), Cat(<<Between(0, 1), Digit>>), Digit>>)
Dir_M == Alt(<<Cat(<<Between(0, 5), Digit>>), Digit>>)
Dir_S == Alt(<<Cat(<<Lit(<<"6">>), Between(0, 1)>>), Cat(<<Between(0, 5), Digit>>), Digit>>)
Dir_z == Alt(<<Cat(<<Set({"+", "-"}), Digit, Digit, Opt(Lit(<<":">>)), Between(0, 5), Digit,
                     Opt(Cat(<<Opt(Lit(<<":">>)), Between(0, 5), Digit,
                               Opt(Cat(<<Lit(<<".">>), Rep(Digit, 1, 6)>>))>>))>>),
               Lit(<<"Z">>)>>)

MonthNames ==
    << <<"j","a","n","u","a","r","y">>, <<"f","e","b","r","u","a","r","y">>, <<"m","a","r","c","h">>, <<"a","p","r","i","l">>, <<"m","a","y">>, <<"j","u","n","e">>, <<"j","u","l","y">>,
       <<"a","u","g","u","s","t">>, <<"s","e","p","t","e","m","b","e","r">>, <<"o","c","t","o","b","e","r">>, <<"n","o","v","e","m","b","e","r">>, <<"d","e","c","e","m","b","e","r">> >>

\* The alternatives of %B in the order strptime tries them.
Dir_B_Order == <<9, 2, 11, 12, 1, 10, 8, 3, 4, 6, 7, 5>>

Dir_B == Alt([n \in DOMAIN Dir_B_Order |-> LitCI(MonthNames[Dir_B_Order[n]])])
Dir_b == Alt([n \in DOMAIN MonthNames |-> LitCI(SubSeq(MonthNames[n], 1, 3))])

\* The six formats parse_job_date tries, each a row of parts with the name
\* of the directive each part is ("" for literal text).
DateFormats ==
    << [parts |-> <<Dir_Y, Lit(<<"-">>), Dir_m, Lit(<<"-">>), Dir_d, LitCI(<<"T">>), Dir_H, Lit(<<":">>), Dir_M, Lit(<<":">>), Dir_S, Dir_z>>,
        names |-> <<"Y", "", "m", "", "d", "", "H", "", "M", "", "S", "z">>],
       [parts |-> <<Dir_Y, Lit(<<"-">>), Dir_m, Lit(<<"-">>), Dir_d, LitCI(<<"T">>), Dir_H, Lit(<<":">>), Dir_M, Lit(<<":">>), Dir_S, LitCI(<<"Z">>)>>,
        names |-> <<"Y", "", "m", "", "d", "", "H", "", "M", "", "S", "">>],
       [parts |-> <<Dir_Y, Lit(<<"-">>), Dir_m, Lit(<<"-">>), Dir_d, LitCI(<<"T">>), Dir_H, Lit(<<":">>), Dir_M, Lit(<<":">>), Dir_S>>,
        names |-> <<"Y", "", "m", "", "d", "", "H", "", "M", "", "S">>],
       [parts |-> <<Dir_Y, Lit(<<"-">>), Dir_m, Lit(<<"-">>), Dir_d>>,
        names |-> <<"Y", "", "m", "", "d">>],
       [parts |-> <<Dir_B, Plus(Space), Dir_d, Lit(<<",">>), Plus(Space), Dir_Y>>,
        names |-> <<"B", "", "d", "", "", "Y">>],
       [parts |-> <<Dir_b, Plus(Space), Dir_d, Lit(<<",">>), Plus(Space), Dir_Y>>,
        names |-> <<"b", "", "d", "", "", "Y">>] >>

HasDirective(format, name) == \E k \in DOMAIN format.names : format.names[k] = name

\* The text the directive matched.
Matched(format, b, s, name) ==
    PartText(b, 1, CHOOSE k \in DOMAIN format.names : format.names[k] = name, s)

IsLeap(year) == year % 4 = 0 /\ (year % 100 # 0 \/ year % 400 = 0)

DaysInMonth(year, month) ==
    IF month = 2 THEN (IF IsLeap(year) THEN 29 ELSE 28)
    ELSE IF month \in {4, 6, 9, 11} THEN 30
    ELSE 31

MonthOf(format, b, s) ==
    IF HasDirective(format, "m") THEN NumberOf(Matched(format, b, s, "m"))
    ELSE IF HasDirective(format, "B")
    THEN CHOOSE n \in DOMAIN MonthNames : MonthNames[n] = Lower(Matched(format, b, s, "B"))
    ELSE CHOOSE n \in DOMAIN MonthNames : SubSeq(MonthNames[n], 1, 3) = Lower(Matched(format, b, s, "b"))

\* The offset %z matched is one timezone() accepts: colons used throughout
\* or not at all, and less than 24 hours.
OffsetOk(z) ==
    \/ z = <<"Z">>
    \/ LET z1 == IF z[4] = ":" THEN SubSeq(z, 1, 3) \o SubSeq(z, 5, Len(z)) ELSE z
           colon == z[4] = ":"
       IN /\ Len(z1) > 5 => ((z1[6] = ":") <=> colon)
          /\ NumberOf(SubSeq(z1, 2, 3)) < 24

\* datetime.strptime(s, format) succeeds: the pattern matches at the start
\* of s in the first way the matcher finds, that match is all of s, and
\* the values name a date and a time.
StrptimeOk(s, format) ==
    LET b == Borders(format.parts, s, 1) IN
    /\ b # <<>>
    /\ b[Len(b)] = Len(s) + 1
    /\ NumberOf(Matched(format, b, s, "Y")) >= 1
    /\ NumberOf(Strip(Matched(format, b, s, "d")))
         <= DaysInMonth(NumberOf(Matched(format, b, s, "Y")), MonthOf(format, b, s))
    /\ HasDirective(format, "S") => NumberOf(Matched(format, b, s, "S")) <= 59
    /\ HasDirective(format, "z") => OffsetOk(Matched(format, b, s, "z"))

DaysBeforeYear(year) ==
    (year - 1) * 365 + (year - 1) \div 4 - (year - 1) \div 100 + (year - 1) \div 400

RECURSIVE DaysBeforeMonth(_, _)
DaysBeforeMonth(year, month) ==
    IF month = 1 THEN 0 ELSE DaysBeforeMonth(year, month - 1) + DaysInMonth(year, month - 1)

\* A naive datetime: the ordinal of its day (1 is 0001-01-01), the second
\* of the day and the microsecond of the second.
DateTime(year, month, day, hour, minute, second, micro) ==
    [day |-> DaysBeforeYear(year) + DaysBeforeMonth(year, month) + day,
     sec |-> 3600 * hour + 60 * minute + second,
     us  |-> micro]

\* datetime.strptime(s, format).replace(tzinfo=None)
Strptime(s, format) ==
    LET b == Borders(format.parts, s, 1) IN
    DateTime(NumberOf(Matched(format, b, s, "Y")), MonthOf(format, b, s),
             NumberOf(Strip(Matched(format, b, s, "d"))),
             IF HasDirective(format, "H") THEN NumberOf(Matched(format, b, s, "H")) ELSE 0,
             IF HasDirective(format, "M") THEN NumberOf(Matched(format, b, s, "M")) ELSE 0,
             IF HasDirective(format, "S") THEN NumberOf(Matched(format, b, s, "S")) ELSE 0,
             0)

\* A timedelta, normalized as Python keeps it: days of any sign, seconds and
\* microseconds not negative.
SecondsPerDay == 86400
MicrosPerSecond == 1000000
MaxDeltaDays == 999999999

Normalized(days, sec, us) ==
    LET s == sec + us \div MicrosPerSecond IN
    [days |-> days + s \div SecondsPerDay, sec |-> s % SecondsPerDay, us |-> us % MicrosPerSecond]

\* timedelta(...) raises OverflowError beyond MaxDeltaDays days.
DeltaOverflows(delta) == delta.days > MaxDeltaDays \/ delta.days < -MaxDeltaDays

\* timedelta(hours=hours)
HoursDelta(hours) == Normalized(hours \div 24, 3600 * (hours % 24), 0)

\* The five entries of the deltas dict, all built whatever the unit is.
UnitNames == << <<"m","i","n","u","t","e">>, <<"h","o","u","r">>, <<"d","a","y">>, <<"w","e","e","k">>, <<"m","o","n","t","h">> >>

UnitDelta(unit, amount) ==
    CASE unit = UnitNames[1] -> Normalized(amount \div 1440, 60 * (amount % 1440), 0)
      [] unit = UnitNames[2] -> Normalized(amount \div 24, 3600 * (amount % 24), 0)
      [] unit = UnitNames[3] -> Normalized(amount, 0, 0)
      [] unit = UnitNames[4] -> Normalized(7 * amount, 0, 0)
      [] unit = UnitNames[5] -> Normalized(30 * amount, 0, 0)

\* r"(\d+)\s+(minute|hour|day|week|month)s?\s+ago" with re.IGNORECASE
RelativePattern ==
    << Plus(Digit),
       Plus(Space),
       Alt([n \in DOMAIN UnitNames |-> LitCI(UnitNames[n])]),
       Cat(<<Opt(LitCI(<<"s">>)), Plus(Space), LitCI(<<"a","g","o">>)>>) >>

\* datetime - timedelta
Minus(date, delta) ==
    LET n == Normalized(date.day - delta.days, date.sec - delta.sec, date.us - delta.us)
    IN [day |-> n.days, sec |-> n.sec, us |-> n.us]

\* datetime - datetime
Elapsed(later, earlier) ==
    Normalized(later.day - earlier.day, later.sec - earlier.sec, later.us - earlier.us)

\* delta1 <= delta2
NotLonger(delta1, delta2) ==
    \/ delta1.days < delta2.days
    \/ delta1.days = delta2.days /\ delta1.sec < delta2.sec
    \/ delta1.days = delta2.days /\ delta1.sec = delta2.sec /\ delta1.us <= delta2.us

\* parse_job_date returned None.
NoDate == [day |-> 0, sec |-> 0, us |-> 0]

RECURSIVE FirstFormat(_, _)
FirstFormat(s, k) ==
    IF k > Len(DateFormats) THEN 0
    ELSE IF StrptimeOk(s, DateFormats[k]) THEN k
    ELSE FirstFormat(s, k + 1)

\* parse_job_date(date_str) when datetime.now() is now: None for an empty
\* text, the date of the first format that parses the trimmed text, else now
\* less the relative time the text starts with, else None.  It raises when
\* one of the five deltas overflows or the date falls before year 1.
parse_job_date(date_str, now) ==
    LET s == Strip(date_str)
        k == FirstFormat(s, 1)
    IN IF date_str = <<>> THEN [raised |-> FALSE, date |-> NoDate]
       ELSE IF k # 0 THEN [raised |-> FALSE, date |-> Strptime(s, DateFormats[k])]
       ELSE LET b == Borders(RelativePattern, s, 1) IN
            IF b = <<>> THEN [raised |-> FALSE, date |-> NoDate]
            ELSE
            LET amount == NumberOf(PartText(b, 1, 1, s))
                unit   == Lower(PartText(b, 1, 3, s))
            IN IF \E n \in DOMAIN UnitNames : DeltaOverflows(UnitDelta(UnitNames[n], amount))
               THEN [raised |-> TRUE, date |-> NoDate]
               ELSE IF Minus(now, UnitDelta(unit, amount)).day < 1
               THEN [raised |-> TRUE, date |-> NoDate]
               ELSE [raised |-> FALSE, date |-> Minus(now, UnitDelta(unit, amount))]

\* ------------------------------------------------------------------- state
VARIABLES
    pc,         \* stage reached by the run
    all_jobs,   \* scrape_jobs' all_jobs list
    batch,      \* the list handed to deduplicate_jobs
    deduped,    \* the list deduplicate_jobs returned
    vault,      \* the ledger directory read by the filter
    seen_ids,   \* the set load_seen_jobs returned
    raised,     \* an exception left the stage
    resume_skills,  \* score_jobs' resume_skills argument
    resume,         \* score_jobs' resume_path argument and the file behind it
    skills,         \* the profile score_jobs scored with
    results,        \* the raw results a provider returned
    date_str,       \* is_within_hours' date_str argument
    hours,          \* is_within_hours' hours argument
    now,            \* what datetime.now() returns
    parsed,         \* what parse_job_date returned
    within          \* what is_within_hours returned

scoreVars == <<resume_skills, resume, skills>>

dateVars == <<date_str, hours, now, parsed, within>>

vars == <<pc, all_jobs, batch, deduped, vault, seen_ids, raised, resume_skills, resume, skills, results,
          date_str, hours, now, parsed, within>>

\* No scoring call is in progress.
ScoreIdle ==
    /\ resume_skills = NoSkills
    /\ resume = Resume("none", <<>>)
    /\ skills = <<>>

\* No recency check is in progress.
DateIdle ==
    /\ date_str = <<>>
    /\ hours = 0
    /\ now = NoDate
    /\ parsed = NoDate
    /\ within = FALSE

\* ---------------------------------------------------- pipeline (scrape_jobs)
Init ==
    /\ pc = "collect"
    /\ DateIdle
    /\ all_jobs = <<>>
    /\ batch = <<>>
    /\ results = <<>>
    /\ deduped = <<>>
    /\ vault = NoVault
    /\ seen_ids = {}
    /\ raised = FALSE
    /\ ScoreIdle

\* One provider row is normalized and appended: all_jobs.extend(normalized).
Normalize ==
    /\ pc = "collect"
    /\ Len(all_jobs) < MaxJobs
    /\ \E raw \in PipelineRaw : all_jobs' = Append(all_jobs, AssignId(raw))
    /\ UNCHANGED <<pc, batch, deduped, vault, seen_ids, raised>>
    /\ UNCHANGED scoreVars
    /\ UNCHANGED dateVars
    /\ UNCHANGED results

\* all_jobs = deduplicate_jobs(all_jobs)
Deduplicate ==
    /\ pc = "collect"
    /\ batch' = all_jobs
    /\ deduped' = deduplicate_jobs(all_jobs)
    /\ all_jobs' = deduped'
    /\ pc' = "deduped"
    /\ UNCHANGED <<vault, seen_ids, raised>>
    /\ UNCHANGED scoreVars
    /\ UNCHANGED dateVars
    /\ UNCHANGED results

\* skip_seen and an obsidian_vault are configured:
\* all_jobs = filter_seen_jobs(all_jobs, config["obsidian_vault"])
FilterSeen ==
    /\ pc = "deduped"
    /\ \E v \in PipelineVaults :
         LET res == filter_seen_jobs(all_jobs, v) IN
         /\ vault' = v
         /\ seen_ids' = load_seen_jobs(v).seen
         /\ raised' = res.raised
         /\ all_jobs' = IF res.raised THEN all_jobs ELSE res.jobs
         /\ pc' = IF res.raised THEN "failed" ELSE "filtered"
    /\ UNCHANGED <<batch, deduped>>
    /\ UNCHANGED scoreVars
    /\ UNCHANGED dateVars
    /\ UNCHANGED results

\* skip_seen is off or no vault is configured: the filter is not called.
SkipFilter ==
    /\ pc = "deduped"
    /\ pc' = "unfiltered"
    /\ UNCHANGED <<all_jobs, batch, deduped, vault, seen_ids, raised>>
    /\ UNCHANGED scoreVars
    /\ UNCHANGED dateVars
    /\ UNCHANGED results

\* all_jobs.sort(key=lambda j: j.get("posted_date", ""), reverse=True);
\* return all_jobs
SortByPostedDate ==
    /\ pc \in {"filtered", "unfiltered"}
    /\ all_jobs' = SortByDate(all_jobs)
    /\ pc' = "sorted"
    /\ UNCHANGED <<batch, deduped, vault, seen_ids, raised>>
    /\ UNCHANGED scoreVars
    /\ UNCHANGED dateVars
    /\ UNCHANGED results

Next == Normalize \/ Deduplicate \/ FilterSeen \/ SkipFilter \/ SortByPostedDate

Spec == Init /\ [][Next]_vars

\* ------------------------------------------- identity generator on its own
IdInit ==
    /\ pc = "raw"
    /\ DateIdle
    /\ all_jobs \in {<<a, b>> : a \in IdRaw, b \in IdRaw}
    /\ batch = <<>>
    /\ results = <<>>
    /\ deduped = <<>>
    /\ vault = NoVault
    /\ seen_ids = {}
    /\ raised = FALSE
    /\ ScoreIdle

\* job["id"] = generate_job_id(job) on both records.
AssignIds ==
    /\ pc = "raw"
    /\ all_jobs' = [i \in DOMAIN all_jobs |-> AssignId(all_jobs[i])]
    /\ pc' = "identified"
    /\ UNCHANGED <<batch, deduped, vault, seen_ids, raised>>
    /\ UNCHANGED scoreVars
    /\ UNCHANGED dateVars
    /\ UNCHANGED results

IdNext == AssignIds

SpecId == IdInit /\ [][IdNext]_vars

\* --------------------------------------------------- load_seen_jobs on its own
LedgerInit ==
    /\ pc = "ledger"
    /\ DateIdle
    /\ vault \in LedgerVaults
    /\ all_jobs = <<>>
    /\ batch = <<>>
    /\ results = <<>>
    /\ deduped = <<>>
    /\ seen_ids = {}
    /\ raised = FALSE
    /\ ScoreIdle

\* seen_ids = load_seen_jobs(obsidian_path)
LoadSeen ==
    /\ pc = "ledger"
    /\ seen_ids' = load_seen_jobs(vault).seen
    /\ raised' = load_seen_jobs(vault).raised
    /\ pc' = IF load_seen_jobs(vault).raised THEN "failed" ELSE "loaded"
    /\ UNCHANGED <<all_jobs, batch, deduped, vault>>
    /\ UNCHANGED scoreVars
    /\ UNCHANGED dateVars
    /\ UNCHANGED results

LedgerNext == LoadSeen

SpecLedger == LedgerInit /\ [][LedgerNext]_vars

\* ============================================================== properties
\* deduplicate_jobs has just returned (batch in, deduped out); no later
\* stage writes batch or deduped.
DedupDone == pc = "deduped"

\* The normalized title key of a record.
Key(job) == normalize_title(job.title)

\* The record at index i is the first of the list with its trimmed url.
SurvivesPass1(jobs, i) ==
    \A j \in 1..(i - 1) : Strip(jobs[j].url) # Strip(jobs[i].url)

\* The priority order of the sources as the specification states it.
PriorityOrder == <<"linkedin", "indeed", "glassdoor", "builtin", "wellfound">>

PriorityRank(source) ==
    IF \E n \in DOMAIN PriorityOrder : PriorityOrder[n] = source
    THEN CHOOSE n \in DOMAIN PriorityOrder : PriorityOrder[n] = source
    ELSE Len(PriorityOrder) + 1

\* The Pass-1 survivors of jobs that share the key of the record at index i.
TitleGroup(jobs, i) ==
    {j \in DOMAIN jobs : SurvivesPass1(jobs, j) /\ Key(jobs[j]) = Key(jobs[i])}

\* The member of a group with the lowest rank, the earliest among equals.
BestOf(jobs, group) ==
    CHOOSE j \in group : \A k \in group :
        \/ PriorityRank(jobs[j].source) < PriorityRank(jobs[k].source)
        \/ PriorityRank(jobs[j].source) = PriorityRank(jobs[k].source) /\ j <= k

\* Number of positions of list that hold the record r.
Count(list, r) == Cardinality({k \in DOMAIN list : list[k] = r})

\* First position of the record r in list.
FirstPos(list, r) ==
    CHOOSE i \in DOMAIN list : list[i] = r /\ \A j \in 1..(i - 1) : list[j] # r

\* out holds only records of in, each no more often than in holds it.
IsSelection(out, in) ==
    /\ \A k \in DOMAIN out : Count(out, out[k]) <= Count(in, out[k])
    /\ Len(out) <= Len(in)

\* C1: Pass 2 returns, for every non-empty normalized title key shared by
\* Pass-1 survivors, exactly one record: the survivor whose source has the
\* lowest rank in linkedin < indeed < glassdoor < builtin < wellfound < any
\* other source, the first of the input among survivors of that rank.
C1_BestSourcePerTitle ==
    DedupDone =>
      \A i \in DOMAIN batch :
        (SurvivesPass1(batch, i) /\ Key(batch[i]) # <<>>) =>
          LET returned == {k \in DOMAIN deduped : Key(deduped[k]) = Key(batch[i])}
          IN /\ Cardinality(returned) = 1
             /\ \A k \in returned : deduped[k] = batch[BestOf(batch, TitleGroup(batch, i))]

\* A group of three survivors in which the first has a worse rank and the
\* other two tie on the best rank: the second is returned, the third is not.
C1_Witness ==
    /\ pc = "deduped"
    /\ Len(batch) = 3
    /\ \A i \in 1..3 : SurvivesPass1(batch, i) /\ Key(batch[i]) = Key(batch[1])
    /\ Key(batch[1]) # <<>>
    /\ PriorityRank(batch[1].source) > PriorityRank(batch[2].source)
    /\ PriorityRank(batch[2].source) = PriorityRank(batch[3].source)
    /\ batch[2] # batch[3]
    /\ deduped = <<batch[2]>>

\* C2: when every record's id is generate_job_id of its own fields, no two
\* records of the Deduplicator's output share an id, and no two share a
\* normalized title.
C2_UniqueIdAndTitle ==
    (DedupDone /\ \A i \in DOMAIN batch : batch[i].id = generate_job_id(batch[i])) =>
      \A p, q \in DOMAIN deduped :
        p # q => /\ deduped[p].id # deduped[q].id
                 /\ Key(deduped[p]) # Key(deduped[q])

\* C3: deduplicating the Deduplicator's output returns it unchanged.
C3_Idempotent ==
    DedupDone => deduplicate_jobs(deduped) = deduped

\* A run in which the first deduplication dropped a record and kept two.
C3_Witness ==
    /\ pc = "deduped"
    /\ Len(deduped) >= 2
    /\ Len(deduped) < Len(batch)
    /\ deduplicate_jobs(deduped) = deduped

\* C4 as stated: the output is ordered by the input position of the
\* surviving records themselves.
C4_OrderByOwnPosition ==
    DedupDone =>
      \A p, q \in DOMAIN deduped :
        p < q <=> FirstPos(batch, deduped[p]) < FirstPos(batch, deduped[q])

\* First input position of a Pass-1 survivor with the key of record r.
GroupFirst(jobs, r) ==
    CHOOSE i \in DOMAIN jobs :
        /\ SurvivesPass1(jobs, i) /\ Key(jobs[i]) = Key(r)
        /\ \A j \in 1..(i - 1) : ~(SurvivesPass1(jobs, j) /\ Key(jobs[j]) = Key(r))

\* C4 amended: the output is ordered by the first-seen input position of each
\* returned record's title group (the first Pass-1 survivor with that
\* normalized title), which is the record's own position only when no later
\* record of a better source replaced the first one.
C4_OrderByGroupPosition ==
    DedupDone =>
      \A p, q \in DOMAIN deduped :
        p < q <=> GroupFirst(batch, deduped[p]) < GroupFirst(batch, deduped[q])

\* A returned record that replaced an earlier one of its group stands in
\* the output before a record that precedes it in the input.
C4_Witness ==
    /\ pc = "deduped"
    /\ \E p, q \in DOMAIN deduped :
         /\ p < q
         /\ FirstPos(batch, deduped[p]) > FirstPos(batch, deduped[q])
         /\ GroupFirst(batch, deduped[p]) < GroupFirst(batch, deduped[q])

\* C5: the Deduplicator and the Seen-Ledger Filter return only records of
\* their input, whole and unchanged, none more often than the input holds
\* it, never more records than they were given, and nothing for an empty
\* input.
C5_SelectWholeRecords ==
    /\ DedupDone => IsSelection(deduped, batch)
    /\ (DedupDone /\ batch = <<>>) => deduped = <<>>
    /\ pc = "filtered" => IsSelection(all_jobs, deduped)
    /\ (pc = "filtered" /\ deduped = <<>>) => all_jobs = <<>>

\* Both stages dropped a record and a record came through both.
C5_Witness ==
    /\ pc = "filtered"
    /\ Len(all_jobs) >= 1
    /\ Len(all_jobs) < Len(deduped)
    /\ Len(deduped) < Len(batch)

\* C6: generate_job_id depends only on the trimmed url when it is non-empty
\* and otherwise only on (title, company, location): two records with the
\* same url get the same id whatever their other fields are, a second call
\* returns the id again, and every id has the same fixed length.
C6_IdFromUrlElseKey ==
    pc = "identified" =>
      LET a == all_jobs[1]
          b == all_jobs[2]
      IN /\ (Strip(a.url) # <<>> /\ Strip(a.url) = Strip(b.url)) => a.id = b.id
         /\ (/\ Strip(a.url) = <<>> /\ Strip(b.url) = <<>>
             /\ a.title = b.title /\ a.company = b.company /\ a.location = b.location)
              => a.id = b.id
         /\ generate_job_id(a) = a.id /\ generate_job_id(b) = b.id
         /\ Len(a.id) = IdLen /\ Len(b.id) = IdLen

\* Two records that share a url and differ in title, company, location and
\* description have received the same id.
C6_Witness ==
    /\ pc = "identified"
    /\ Strip(all_jobs[1].url) # <<>>
    /\ all_jobs[1].url = all_jobs[2].url
    /\ all_jobs[1].description # all_jobs[2].description
    /\ all_jobs[1].title # all_jobs[2].title
    /\ all_jobs[1].company # all_jobs[2].company
    /\ all_jobs[1].location # all_jobs[2].location
    /\ all_jobs[1].id = all_jobs[2].id

\* C7: with the hash injective on the text it is given, two records whose
\* urls differ (as the code reads them, trimmed) never receive the same id,
\* and a record with a url never receives the id of a URL-less record.
C7_DifferentUrlsDifferentIds ==
    pc = "identified" =>
      \A m, n \in DOMAIN all_jobs :
        LET a == all_jobs[m]
            b == all_jobs[n]
        IN /\ Strip(a.url) # Strip(b.url) => a.id # b.id
           /\ (Strip(a.url) # <<>> /\ Strip(b.url) = <<>>) => a.id # b.id

\* A markdown link [Apply](URL) or [Link](URL) with a non-empty URL starts at
\* position i of text.
SpanAt(text, i) ==
    /\ OpenEnd(text, i) # 0
    /\ CloseFrom(text, OpenEnd(text, i)) > OpenEnd(text, i)
    /\ CloseFrom(text, OpenEnd(text, i)) <= Len(text)

\* The link at i is not inside a link that starts further left.
LinkAt(text, i) ==
    /\ SpanAt(text, i)
    /\ \A k \in 1..(i - 1) :
         SpanAt(text, k) => CloseFrom(text, OpenEnd(text, k)) < i

\* The URL of the link that starts at position i.
UrlAt(text, i) == SubSeq(text, OpenEnd(text, i), CloseFrom(text, OpenEnd(text, i)) - 1)

\* The line of text that holds position i.
LineOf(text, i) ==
    LET before == {k \in 1..(i - 1) : text[k] = "\n"}
        after  == {k \in i..Len(text) : text[k] = "\n"}
        lo == IF before = {} THEN 1
              ELSE 1 + CHOOSE k \in before : \A m \in before : m <= k
        hi == IF after = {} THEN Len(text)
              ELSE (CHOOSE k \in after : \A m \in after : k <= m) - 1
    IN SubSeq(text, lo, hi)

\* The URLs of all links of a text.
LinkUrls(text) == {UrlAt(text, i) : i \in {k \in DOMAIN text : LinkAt(text, k)}}

\* The URLs of the links of a text that stand on a table row (a line that
\* holds "|" and does not start with "|--") and hold no "|" themselves.
RowLinkUrls(text) ==
    {UrlAt(text, i) : i \in {k \in DOMAIN text :
        /\ LinkAt(text, k)
        /\ "|" \in Range(LineOf(text, k))
        /\ ~StartsWith(LineOf(text, k), SeparatorPrefix)
        /\ "|" \notin Range(UrlAt(text, k))}}

\* The ledger leaves the filter nothing to drop: no directory, no tracker
\* document, or readable documents without a link.
EmptyLedger(v) ==
    \/ ~v.exists
    \/ {f \in v.files : StartsWith(f.name, TrackerPrefix) /\ EndsWith(f.name, TrackerSuffix)} = {}
    \/ \A f \in v.files : f.readable /\ LinkUrls(f.content) = {}

\* C8: filter_seen_jobs returns, in input order, exactly the records whose id
\* is not in the identity set recovered from the ledger; with the ledger
\* directory absent, without tracker document, or with readable documents
\* that hold no link, it returns its input as it is and raises nothing.
C8_FilterDropsSeenOnly ==
    /\ pc = "filtered" =>
         /\ \A r \in Range(deduped) :
              Count(all_jobs, r) = IF r.id \in seen_ids THEN 0 ELSE Count(deduped, r)
         /\ \A p, q \in DOMAIN all_jobs :
              p < q => FirstPos(deduped, all_jobs[p]) < FirstPos(deduped, all_jobs[q])
         /\ Range(all_jobs) \subseteq Range(deduped)
    /\ (pc \in {"filtered", "failed"} /\ EmptyLedger(vault)) =>
         /\ ~raised
         /\ pc = "filtered"
         /\ all_jobs = deduped

\* The ledger held the id of the second of three records: the first and the
\* third are returned, in that order.
C8_Witness ==
    /\ pc = "filtered"
    /\ Len(deduped) = 3
    /\ deduped[2].id \in seen_ids
    /\ all_jobs = <<deduped[1], deduped[3]>>

\* C9: a tracker document that cannot be read or decoded does not fail the
\* run: filter_seen_jobs returns every input record.
C9_CorruptLedgerShowsEverything ==
    (pc \in {"filtered", "failed"} /\ \E f \in TrackerFiles(vault) : ~f.readable) =>
      /\ ~raised
      /\ pc = "filtered"
      /\ all_jobs = deduped

\* C10 as stated: the seen set holds the URL hash of every [Apply](URL) or
\* [Link](URL) of every document of the ledger directory, on whatever line
\* and under whatever name, and nothing else.
C10_EveryLinkOfEveryDocument ==
    pc = "loaded" =>
      seen_ids = {Md5Hex12(u) : u \in UNION {LinkUrls(f.content) : f \in vault.files}}

\* C10 amended: the seen set holds the hash of the URL, as written, of every
\* [Apply](URL) or [Link](URL) that stands in a document named
\* "Job Tracker*.md", on a line that holds "|" and does not start with "|--",
\* with a non-empty URL free of ")" and "|"; links on other lines or in
\* other documents, and all other content, add nothing.
C10_LinksOfTrackerTableRows ==
    pc = "loaded" =>
      seen_ids = {Md5Hex12(u) : u \in
                    UNION {RowLinkUrls(f.content) :
                             f \in {g \in vault.files :
                                      /\ StartsWith(g.name, TrackerPrefix)
                                      /\ EndsWith(g.name, TrackerSuffix)}}}

\* A tracker document with one link on a table row and one on a line that
\* is no table row: only the first is in the seen set.
C10_Witness ==
    /\ pc = "loaded"
    /\ \E f \in vault.files :
         /\ GlobMatch(f.name)
         /\ RowLinkUrls(f.content) # {}
         /\ \E u \in LinkUrls(f.content) :
              u \notin RowLinkUrls(f.content) /\ Md5Hex12(u) \notin seen_ids
    /\ seen_ids # {}

\* ------------------------------------------- record and ledger row, round trip
\* URLs a provider row may carry, as the tracker page later shows them
\* between "[Apply](" and ")".
RoundTripUrls ==
    { <<"a">>, <<"b">>, <<"d", "!">>, <<"x", "-", "-">>, <<"a", " ", "b">>,
      <<" ", "a">>, <<"a", " ">>, <<"b", ")", "a">>, <<"a", ")">>, <<"a", "|", "b">> }

RoundTripRaw ==
    { Raw(t, <<"c">>, <<>>, <<>>, u, "indeed") : t \in {<<"D", "s">>, <<"x">>, <<>>}, u \in RoundTripUrls }

\* The table row of the tracker page that records a job's url u.
RoundTripRows(u) ==
    { before \o Cell(open, u) : before \in {<<"|">>, <<"|", " ", "x", " ", "|">>},
                                open \in {ApplyOpen, LinkOpen} }

\* A later run scrapes the recorded job again; the ledger holds its row.
RoundTripInit ==
    /\ pc = "recorded"
    /\ DateIdle
    /\ \E raw \in RoundTripRaw :
         /\ all_jobs = <<AssignId(raw)>>
         /\ \E row \in RoundTripRows(raw.url) :
              vault = [exists |-> TRUE, files |-> {File(TrackerName, TRUE, row)}]
    /\ batch = <<>>
    /\ results = <<>>
    /\ deduped = <<>>
    /\ seen_ids = {}
    /\ raised = FALSE
    /\ ScoreIdle

\* all_jobs = filter_seen_jobs(all_jobs, config["obsidian_vault"])
FilterRecorded ==
    /\ pc = "recorded"
    /\ LET res == filter_seen_jobs(all_jobs, vault) IN
         /\ seen_ids' = load_seen_jobs(vault).seen
         /\ raised' = res.raised
         /\ all_jobs' = IF res.raised THEN all_jobs ELSE res.jobs
         /\ pc' = IF res.raised THEN "failed" ELSE "rerun"
    /\ batch' = all_jobs
    /\ UNCHANGED <<deduped, vault>>
    /\ UNCHANGED scoreVars
    /\ UNCHANGED dateVars
    /\ UNCHANGED results

RoundTripNext == FilterRecorded

SpecRoundTrip == RoundTripInit /\ [][RoundTripNext]_vars

\* C11: a record whose non-empty url u stands in a tracker table row as
\* [Apply](u) or [Link](u) has the id load_seen_jobs recovers from that row,
\* and filter_seen_jobs drops it, whatever characters u holds.
C11_RoundTripEveryUrl ==
    pc = "rerun" =>
        \A i \in DOMAIN batch :
            batch[i].url # <<>> =>
                /\ batch[i].id \in seen_ids
                /\ \A k \in DOMAIN all_jobs : all_jobs[k] # batch[i]

\* ------------------------------------------------- input domains of scoring
\* Largest list handed to score_jobs.
MaxScored == 3
\* Largest number of phrases in one resume text.
MaxPhrases == 2

\* A canonical record as score_jobs reads it from the scraped file.
ScoreRaw(title, description, company, id) ==
    [title |-> title, description |-> description, company |-> company,
     id |-> id, scraped_at |-> <<"t">> \o id]

ScoreJobSet ==
    { ScoreRaw(<<"P","y","t","h","o","n"," ","D","e","v">>,
               <<"s","q","l"," ","r","e","m","o","t","e">>,
               <<"A","c","m","e">>, <<"1">>),
      ScoreRaw(<<"S","Q","L"," ","D","e","v">>,
               <<"P","y","t","h","o","n",","," ","r","e","m","o","t","e"," ","o","r"," ","h","y","b","r","i","d">>,
               <<"b">>, <<"2">>),
      ScoreRaw(<<>>,
               <<"d","a","t","a">>,
               <<"a","n","a","l","y","s","t"," ","i","n","c">>, <<"3">>),
      ScoreRaw(<<"N","u","r","s","e">>,
               <<>>,
               <<>>, <<"4">>),
      ScoreRaw(<<"D","a","t","a"," ","S","c","i","e","n","t","i","s","t">>,
               <<"d","a","t","a"," ","a","n","a","l","y","s","t",","," ","r","e","s","e","a","r","c","h"," ","a","n","a","l","y","s","t",","," ","h","e","a","l","t","h"," ","i","n","f","o","r","m","a","t","i","c","s",","," ","c","l","i","n","i","c","a","l"," ","a","n","a","l","y","s","t",","," ","e","h","r",";"," ","p","y","t","h","o","n"," ","s","q","l"," ","a","w","s">>,
               <<"x">>, <<"5">>),
      ScoreRaw(<<"E","p","i","c">>,
               <<"p","a","t","r","i","o","t"," ","f","h","i","r">>,
               <<"s","q","l">>, <<"6">>) }

ScoreLists == UNION {[1..n -> ScoreJobSet] : n \in 0..MaxScored}

S_python == <<"p","y","t","h","o","n">>
S_sql == <<"s","q","l">>
S_data_analyst == <<"d","a","t","a"," ","a","n","a","l","y","s","t">>

\* Explicit resume_skills lists.
ExplicitSkills ==
    { <<>>,
      <<S_python, S_sql>>,
      <<S_python, S_python, S_sql>>,
      << <<"P","y","t","h","o","n">> >>,
      <<S_sql, S_data_analyst, S_python>> }

\* Resumes behind resume_path.
ResumeFiles ==
    { Resume("none", <<>>),
      Resume("missing", <<>>),
      Resume("unreadable", <<"s","q","l">>),
      Resume("file", <<>>),
      Resume("file", <<" ">>),
      Resume("file", <<"z","z","z">>),
      Resume("file", <<"P","y","t","h","o","n"," ","a","n","d"," ","S","Q","L",";"," ","D","o","c","k","e","r",","," ","M","o","n","g","o","D","B">>) }

\* Calls of score_jobs: explicit skills (with or without a resume), or a
\* resume path alone, or neither.
ScoreCalls ==
    { <<Skills(l), Resume("none", <<>>)>> : l \in ExplicitSkills }
      \cup { <<Skills(l), Resume("file", <<"t","a","b","l","e","a","u">>)>> : l \in {<<>>, <<S_sql, S_data_analyst, S_python>>} }
      \cup { <<NoSkills, r>> : r \in ResumeFiles }

\* ------------------------------------------------------ scoring (score_jobs)
ScoreInit ==
    /\ pc = "unscored"
    /\ DateIdle
    /\ all_jobs \in ScoreLists
    /\ \E call \in ScoreCalls : resume_skills = call[1] /\ resume = call[2]
    /\ skills = <<>>
    /\ batch = <<>>
    /\ results = <<>>
    /\ deduped = <<>>
    /\ vault = NoVault
    /\ seen_ids = {}
    /\ raised = FALSE

\* scored = score_jobs(jobs, resume_skills, resume_path)
ScoreJobs ==
    /\ pc = "unscored"
    /\ batch' = all_jobs
    /\ skills' = select_skills(resume_skills, resume)
    /\ all_jobs' = score_jobs(all_jobs, resume_skills, resume)
    /\ pc' = "scored"
    /\ UNCHANGED <<deduped, vault, seen_ids, raised, resume_skills, resume, results>>
    /\ UNCHANGED dateVars

ScoreNext == ScoreJobs

SpecScore == ScoreInit /\ [][ScoreNext]_vars
\* ------------------------------------------------------- scoring properties
ScoreDone == pc = "scored"

\* The entries of list at the positions idx, in list order.
RECURSIVE PickLoop(_, _, _)
PickLoop(list, idx, i) ==
    IF i > Len(list) THEN <<>>
    ELSE (IF i \in idx THEN <<list[i]>> ELSE <<>>) \o PickLoop(list, idx, i + 1)

Pick(list, idx) == PickLoop(list, idx, 1)

RECURSIVE SumPoints(_)
SumPoints(rules) ==
    IF rules = {} THEN 0
    ELSE LET r == CHOOSE r \in rules : TRUE
         IN BONUS_RULES[r].points + SumPoints(rules \ {r})

\* The bonus rules with at least one keyword in the text, and their sum B.
RulesIn(text) ==
    {r \in DOMAIN BONUS_RULES :
        \E k \in DOMAIN BONUS_RULES[r].keywords : Contains(text, BONUS_RULES[r].keywords[k])}

BonusOf(text) == SumPoints(RulesIn(text))

Capped(n) == IF n < MaxScore THEN n ELSE MaxScore

\* The reason text that names the given terms.
ReasonNaming(terms) ==
    IF terms = <<>> THEN GeneralFit
    ELSE MatchesPrefix \o Join(Take(terms, ReasonCap), CommaSpace)

\* The profile entries found in the lower-cased job text, one per entry of
\* the profile.
MatchedEntries(job) ==
    LET text == JobText(job) IN
    Pick(skills, {i \in DOMAIN skills : Contains(text, skills[i])})

\* The same, a term the profile repeats taken at its first entry only.
MatchedDistinct(job) ==
    LET text == JobText(job) IN
    Pick(skills, {i \in DOMAIN skills :
                    /\ Contains(text, skills[i])
                    /\ \A j \in 1..(i - 1) : skills[j] # skills[i]})

\* The profile entries found in the job text when letter case is ignored on
\* both sides.
MatchedAnyCase(job) ==
    LET text == JobText(job) IN
    Pick(skills, {i \in DOMAIN skills : Contains(text, Lower(skills[i]))})

\* C12: the per-skill part is 5 times the number of distinct profile terms
\* found in the job text; a term the profile lists more than once counts
\* once in match_score and is named once in match_reason.
C12_DistinctTermsCountedOnce ==
    ScoreDone =>
        \A n \in DOMAIN all_jobs :
            /\ all_jobs[n].match_score
                 = Capped(SkillPoints * Len(MatchedDistinct(all_jobs[n])) + BonusOf(JobText(all_jobs[n])))
            /\ all_jobs[n].match_reason = ReasonNaming(MatchedDistinct(all_jobs[n]))

\* C13: a profile term counts as matched exactly when it occurs in the job
\* text with letter case ignored on both sides, so a term written with
\* upper-case letters matches like its lower-case form.
C13_MatchIgnoresCaseOnBothSides ==
    ScoreDone =>
        \A n \in DOMAIN all_jobs :
            /\ all_jobs[n].match_score
                 = Capped(SkillPoints * Len(MatchedAnyCase(all_jobs[n])) + BonusOf(JobText(all_jobs[n])))
            /\ all_jobs[n].match_reason = ReasonNaming(MatchedAnyCase(all_jobs[n]))

\* C14: match_score = min(100, S + B) with S the per-skill part and B the sum
\* of the points of every bonus rule with a keyword in the text, each rule
\* once, whatever the profile; the score is an integer in 0..100.
C14_ScoreIsCappedSkillPlusBonus ==
    ScoreDone =>
        \A n \in DOMAIN all_jobs :
            /\ all_jobs[n].match_score
                 = Capped(SkillPoints * Len(MatchedEntries(all_jobs[n])) + BonusOf(JobText(all_jobs[n])))
            /\ all_jobs[n].match_score \in 0..MaxScore

\* Bonuses stack past the ceiling and one rule has two keywords in the text.
C14_Witness ==
    /\ ScoreDone
    /\ \E n \in DOMAIN all_jobs :
         LET text == JobText(all_jobs[n]) IN
         /\ SkillPoints * Len(MatchedEntries(all_jobs[n])) + BonusOf(text) > MaxScore
         /\ all_jobs[n].match_score = MaxScore
    /\ \E n \in DOMAIN all_jobs :
         LET text == JobText(all_jobs[n]) IN
         /\ Cardinality(RulesIn(text)) >= 2
         /\ \E r \in RulesIn(text) :
              Cardinality({k \in DOMAIN BONUS_RULES[r].keywords :
                              Contains(text, BONUS_RULES[r].keywords[k])}) >= 2
         /\ all_jobs[n].match_score < MaxScore

S_remote == <<"r","e","m","o","t","e">>

\* The bonus rule that holds the keyword.
RuleOf(kw) ==
    CHOOSE r \in DOMAIN BONUS_RULES : kw \in Range(BONUS_RULES[r].keywords)

\* C15: match_reason is 'Matches: ' followed by at most the first six matched
\* profile terms in profile order joined by ', ', and 'General fit' when no
\* term matched; bonus rules are not named.  With the profile [python, sql],
\* a text holding both and 'remote' and no keyword of another bonus rule
\* scores 15 with the reason 'Matches: python, sql'.
C15_ReasonNamesFirstSixMatches ==
    ScoreDone =>
        \A n \in DOMAIN all_jobs :
            LET job == all_jobs[n]
                text == JobText(job)
            IN /\ job.match_reason = ReasonNaming(MatchedEntries(job))
               /\ MatchedEntries(job) = <<>> => job.match_reason = GeneralFit
               /\ ( /\ skills = <<S_python, S_sql>>
                    /\ Contains(text, S_python)
                    /\ Contains(text, S_sql)
                    /\ Contains(text, S_remote)
                    /\ RulesIn(text) = {RuleOf(S_remote)} )
                  => /\ job.match_score = 15
                     /\ job.match_reason
                          = MatchesPrefix \o S_python \o CommaSpace \o S_sql

\* The example of the claim is scored beside a job that matched nothing.
C15_Witness ==
    /\ ScoreDone
    /\ skills = <<S_python, S_sql>>
    /\ \E n \in DOMAIN all_jobs :
         LET text == JobText(all_jobs[n]) IN
         /\ Contains(text, S_python) /\ Contains(text, S_sql) /\ Contains(text, S_remote)
         /\ RulesIn(text) = {RuleOf(S_remote)}
         /\ all_jobs[n].match_score = 15
    /\ \E n \in DOMAIN all_jobs :
         /\ MatchedEntries(all_jobs[n]) = <<>>
         /\ RulesIn(JobText(all_jobs[n])) # {}
         /\ all_jobs[n].match_reason = GeneralFit

\* A record without the two fields score_jobs sets.
Unscored(job) ==
    [f \in DOMAIN job \ {"match_score", "match_reason"} |-> job[f]]

\* The ways to lay out n input positions in the output.
Layouts(n) ==
    {p \in [1..n -> 1..n] : \A i, j \in 1..n : p[i] = p[j] => i = j}

\* Output position k holds the record of input position p[k].
IsLayout(p) ==
    \A k \in DOMAIN all_jobs : Unscored(all_jobs[k]) = batch[p[k]]

\* C16: score_jobs returns the records in descending order of match_score,
\* and records of equal match_score in the order they had in the input.
C16_SortedDescendingAndStable ==
    ScoreDone =>
        /\ \A i, j \in DOMAIN all_jobs :
              i < j => all_jobs[i].match_score >= all_jobs[j].match_score
        /\ \E p \in Layouts(Len(batch)) :
              /\ Len(all_jobs) = Len(batch)
              /\ IsLayout(p)
              /\ \A i, j \in DOMAIN all_jobs :
                    (i < j /\ all_jobs[i].match_score = all_jobs[j].match_score)
                        => p[i] < p[j]

\* Two different records tie, and a record moved ahead of a lower score.
C16_Witness ==
    /\ ScoreDone
    /\ \E i, j \in DOMAIN all_jobs :
         /\ i < j
         /\ all_jobs[i].match_score = all_jobs[j].match_score
         /\ all_jobs[i].id # all_jobs[j].id
    /\ \E i, j \in DOMAIN batch :
         /\ i < j
         /\ score_job(batch[i], skills).score < score_job(batch[j], skills).score

\* C18: score_jobs returns the input records, none added, dropped or
\* duplicated, each with match_score and match_reason set and every other
\* field as it was.
C18_SameRecordsTwoFieldsSet ==
    ScoreDone =>
        /\ Len(all_jobs) = Len(batch)
        /\ \E p \in Layouts(Len(batch)) : IsLayout(p)
        /\ \A k \in DOMAIN all_jobs :
              /\ {"match_score", "match_reason"} \subseteq DOMAIN all_jobs[k]
              /\ all_jobs[k].match_score = score_job(Unscored(all_jobs[k]), skills).score
              /\ all_jobs[k].match_reason = score_job(Unscored(all_jobs[k]), skills).reason

\* A list with one record twice and an unmatched record, reordered.
C18_Witness ==
    /\ ScoreDone
    /\ \E i, j \in DOMAIN batch : i # j /\ batch[i] = batch[j]
    /\ \E k \in DOMAIN all_jobs : all_jobs[k].match_score = 0
    /\ \E k \in DOMAIN all_jobs : Unscored(all_jobs[k]) # batch[k]

\* C20: score_jobs scores with the resume_skills list when one is given,
\* else with the skills extracted from the resume when a path is given and
\* the resume yields text, else with the fallback vocabulary; no error.
C20_ProfileSelection ==
    ScoreDone =>
        /\ ~raised
        /\ resume_skills.given => skills = resume_skills.list
        /\ (~resume_skills.given /\ resume.kind = "file" /\ resume.text # <<>>)
              => skills = extract_skills_from_resume(resume.text)
        /\ (~resume_skills.given /\ (resume.kind \in {"none", "missing", "unreadable"}
                                       \/ resume.text = <<>>))
              => skills = FALLBACK_SKILLS

\* An empty list was given and used; elsewhere a resume gave no skill.
C20_Witness ==
    /\ ScoreDone
    /\ \/ resume_skills.given /\ resume_skills.list = <<>> /\ skills = <<>>
             /\ resume.kind = "file"
       \/ ~resume_skills.given /\ resume.kind = "file" /\ resume.text # <<>>
             /\ skills = <<>>
    /\ all_jobs # <<>>

\* ------------------------------------------- one job re-scored after an edit
\* Profiles held fixed while the job's description grows.
MonoProfiles == ExplicitSkills \cup {FALLBACK_SKILLS}

\* What stands between the description and the appended keyword.
AppendGlue == {<<>>, <<" ">>}

MonoInit ==
    /\ pc = "posted"
    /\ DateIdle
    /\ \E job \in ScoreJobSet : all_jobs = <<job>>
    /\ \E profile \in MonoProfiles :
         /\ resume_skills = Skills(profile)
         /\ skills = profile
    /\ resume = Resume("none", <<>>)
    /\ batch = <<>>
    /\ results = <<>>
    /\ deduped = <<>>
    /\ vault = NoVault
    /\ seen_ids = {}
    /\ raised = FALSE

\* The job is scored, a profile keyword that matches is appended to its
\* description, and the job is scored again with the same profile.
AppendSkillAndRescore ==
    /\ pc = "posted"
    /\ \E kw \in Range(skills), glue \in AppendGlue :
         LET job == all_jobs[1]
             edited == [job EXCEPT !.description = job.description \o glue \o kw]
         IN /\ Contains(JobText(edited), kw)
            /\ batch' = <<Scored(job, skills)>>
            /\ all_jobs' = <<Scored(edited, skills)>>
    /\ pc' = "rescored"
    /\ UNCHANGED <<deduped, vault, seen_ids, raised>>
    /\ UNCHANGED scoreVars
    /\ UNCHANGED dateVars
    /\ UNCHANGED results

MonoNext == AppendSkillAndRescore

SpecMono == MonoInit /\ [][MonoNext]_vars

\* C17: with the profile fixed, a job whose description got one more
\* matching skill keyword appended scores at least what it scored before,
\* and keeps every skill and every bonus rule it matched before.
C17_AppendNeverLowersScore ==
    pc = "rescored" =>
        LET before == JobText(batch[1])
            after == JobText(all_jobs[1])
        IN /\ all_jobs[1].match_score >= batch[1].match_score
           /\ \A i \in DOMAIN skills :
                 Contains(before, skills[i]) => Contains(after, skills[i])
           /\ RulesIn(before) \subseteq RulesIn(after)

\* ------------------------------------- extract_skills_from_resume on its own
ResumePhrases ==
    { <<"P","y","t","h","o","n">>,
      <<"P","o","s","t","g","r","e","S","Q","L">>,
      <<"D","o","c","k","e","r">>,
      <<"m","o","n","g","o","d","b">>,
      <<"z","z","z">>,
      <<"J","a","v","a","S","c","r","i","p","t">>,
      <<"e","x","c","e","l","l","e","n","t">>,
      <<"A","/","B"," ","T","e","s","t","i","n","g">> }

ResumeTexts ==
    {Join(ps, CommaSpace) : ps \in UNION {[1..n -> ResumePhrases] : n \in 0..MaxPhrases}}

ExtractInit ==
    /\ pc = "resume"
    /\ DateIdle
    /\ \E text \in ResumeTexts : resume = Resume("file", text)
    /\ resume_skills = NoSkills
    /\ skills = <<>>
    /\ all_jobs = <<>>
    /\ batch = <<>>
    /\ results = <<>>
    /\ deduped = <<>>
    /\ vault = NoVault
    /\ seen_ids = {}
    /\ raised = FALSE

\* resume_skills = extract_skills_from_resume(text)
ExtractSkills ==
    /\ pc = "resume"
    /\ skills' = extract_skills_from_resume(resume.text)
    /\ pc' = "extracted"
    /\ UNCHANGED <<all_jobs, batch, deduped, vault, seen_ids, raised, resume_skills, resume, results>>
    /\ UNCHANGED dateVars

ExtractNext == ExtractSkills

SpecExtract == ExtractInit /\ [][ExtractNext]_vars

\* The vocabulary terms that occur in the text, letter case ignored.
TermsIn(text) ==
    {CANDIDATES[i] : i \in {k \in DOMAIN CANDIDATES : Contains(Lower(text), Lower(CANDIDATES[k]))}}

\* C19: extract_skills_from_resume returns exactly the vocabulary terms that
\* occur in the resume text with letter case ignored, in vocabulary order,
\* each once even where the vocabulary repeats a term; the empty text gives
\* the empty list.
C19_ExtractedTermsInVocabularyOrder ==
    pc = "extracted" =>
        /\ Range(skills) = TermsIn(resume.text)
        /\ \A i, j \in DOMAIN skills : skills[i] = skills[j] => i = j
        /\ \A i, j \in DOMAIN skills :
              i < j => FirstPos(CANDIDATES, skills[i]) < FirstPos(CANDIDATES, skills[j])
        /\ resume.text = <<>> => skills = <<>>

\* A term the vocabulary lists twice is found, written with capitals, beside
\* another term.
C19_Witness ==
    /\ pc = "extracted"
    /\ Len(skills) >= 3
    /\ \E s \in Range(skills) :
         /\ Cardinality({k \in DOMAIN CANDIDATES : CANDIDATES[k] = s}) >= 2
         /\ ~Contains(resume.text, s)

\* ------------------------------------------------ title keys (Pass 2 groups)
\* Titles made of the words "d" and "s", written with other letter case,
\* punctuation or spacing, and titles of other words.
TitleVariants ==
    { <<"d", " ", "s">>, <<"D", " ", "S">>, <<"d", " ", "s", "!">>, <<"d", ".", " ", "s">>,
      <<"d", " ", " ", "s">>, <<" ", "d", " ", "s", " ">>,
      <<"d", "s">>, <<"d", "-", "s">>, <<"x">> }

TitleRaw ==
    { Raw(t, <<>>, <<>>, <<>>, u, src) :
        t \in TitleVariants, u \in {<<"a">>, <<"b">>}, src \in {"indeed", "linkedin"} }

\* A batch of two normalized records is handed to the Deduplicator.
TitleInit ==
    /\ pc = "collect"
    /\ DateIdle
    /\ \E r1 \in TitleRaw, r2 \in TitleRaw : all_jobs = <<AssignId(r1), AssignId(r2)>>
    /\ batch = <<>>
    /\ results = <<>>
    /\ deduped = <<>>
    /\ vault = NoVault
    /\ seen_ids = {}
    /\ raised = FALSE
    /\ ScoreIdle

TitleNext == Deduplicate

SpecTitle == TitleInit /\ [][TitleNext]_vars

\* Runs of whitespace collapsed to one space, none at either end.
RECURSIVE CollapseLoop(_, _, _)
CollapseLoop(s, i, out) ==
    IF i > Len(s) THEN out
    ELSE IF s[i] \in Whitespace
         THEN IF out # <<>> /\ out[Len(out)] = " "
              THEN CollapseLoop(s, i + 1, out)
              ELSE CollapseLoop(s, i + 1, Append(out, " "))
         ELSE CollapseLoop(s, i + 1, Append(out, s[i]))

Collapse(s) == Strip(CollapseLoop(s, 1, <<>>))

\* The title with letter case, punctuation and the amount of whitespace
\* between words taken out.
WordsOf(title) ==
    Collapse(SelectSeq(Lower(title),
                       LAMBDA c : c \in Range(LowerLetters) \cup Digits \cup Whitespace))

\* C24: two titles that differ only in letter case, in punctuation or in the
\* number of whitespace characters between the same words have the same
\* normalized title key, and the Deduplicator returns at most one of them.
C24_KeyIgnoresCasePunctuationSpacing ==
    DedupDone =>
        /\ \A i, j \in DOMAIN batch :
              WordsOf(batch[i].title) = WordsOf(batch[j].title) => Key(batch[i]) = Key(batch[j])
        /\ \A p, q \in DOMAIN deduped :
              p # q => WordsOf(deduped[p].title) # WordsOf(deduped[q].title)

\* C25: Pass 1 keeps the first-seen record of every distinct trimmed url, the
\* empty url being one value like any other: every returned record is the
\* first of the batch with its trimmed url, and of the records whose url is
\* empty or whitespace at most one is returned, the first of the batch.
C25_OneUrlLessRecord ==
    DedupDone =>
        /\ Pass1(batch) = Pick(batch, {i \in DOMAIN batch : SurvivesPass1(batch, i)})
        /\ \A k \in DOMAIN deduped :
              \E i \in DOMAIN batch : deduped[k] = batch[i] /\ SurvivesPass1(batch, i)
        /\ Cardinality({k \in DOMAIN deduped : Strip(deduped[k].url) = <<>>}) <= 1
        /\ \A k \in DOMAIN deduped :
              Strip(deduped[k].url) = <<>> =>
                  \A i \in DOMAIN batch :
                      Strip(batch[i].url) = <<>> =>
                          deduped[k] = batch[CHOOSE f \in DOMAIN batch :
                                                /\ Strip(batch[f].url) = <<>>
                                                /\ \A g \in 1..(f - 1) : Strip(batch[g].url) # <<>>]

\* Two URL-less records with different titles and sources: the first is
\* returned, the second is not.
C25_Witness ==
    /\ DedupDone
    /\ \E i, j \in DOMAIN batch :
         /\ i < j
         /\ Strip(batch[i].url) = <<>> /\ Strip(batch[j].url) = <<>>
         /\ batch[i].url # batch[j].url
         /\ Key(batch[i]) # Key(batch[j]) /\ Key(batch[j]) # <<>>
         /\ batch[i].source # batch[j].source
         /\ \E k \in DOMAIN deduped : deduped[k] = batch[i]
         /\ \A k \in DOMAIN deduped : deduped[k] # batch[j]

\* C26: no record whose normalized title is empty is in the Deduplicator's
\* output, even when no other record of the batch has its url.
C26_EmptyTitleKeyDropped ==
    DedupDone =>
        /\ \A k \in DOMAIN deduped : Key(deduped[k]) # <<>>
        /\ \A i \in DOMAIN batch :
              Key(batch[i]) = <<>> => \A k \in DOMAIN deduped : deduped[k] # batch[i]

\* A record with an empty title key and a url of its own is dropped while
\* another record is returned.
C26_Witness ==
    /\ DedupDone
    /\ deduped # <<>>
    /\ \E i \in DOMAIN batch :
         /\ Key(batch[i]) = <<>>
         /\ batch[i].title # <<>>
         /\ \A j \in DOMAIN batch : j # i => Strip(batch[j].url) # Strip(batch[i].url)
         /\ \A k \in DOMAIN deduped : deduped[k] # batch[i]

\* ------------------------------------------------ properties of the last stages
SortDone == pc = "sorted"

\* Year, month, day, hour, minute and second an ISO-8601 posted_date names;
\* a date without a time of day is its midnight.
IsoFields(date) ==
    <<NumberOf(SubSeq(date, 1, 4)), NumberOf(SubSeq(date, 6, 7)), NumberOf(SubSeq(date, 9, 10))>>
    \o (IF Len(date) >= 19
        THEN <<NumberOf(SubSeq(date, 12, 13)), NumberOf(SubSeq(date, 15, 16)), NumberOf(SubSeq(date, 18, 19))>>
        ELSE <<0, 0, 0>>)

\* The instant a names is not before the instant b names.
NotOlder(a, b) ==
    LET fa == IsoFields(a)
        fb == IsoFields(b)
    IN \/ fa = fb
       \/ \E n \in 1..6 : fa[n] > fb[n] /\ \A m \in 1..(n - 1) : fa[m] = fb[m]

\* What the seen-ledger stage leaves of the deduplicated whole batch.
PostFilter == SelectSeq(deduplicate_jobs(batch), LAMBDA job : job.id \notin seen_ids)

\* C27: the list scrape_jobs returns holds exactly the records that the
\* seen-ledger stage (when it runs) leaves of the deduplicated whole batch,
\* newest posted_date first, records with an empty posted_date last, and
\* records with equal posted_date in their post-filter relative order.
C27_StagesInOrderNewestFirst ==
    SortDone =>
        /\ Len(all_jobs) = Len(PostFilter)
        /\ \A k \in DOMAIN PostFilter : Count(all_jobs, PostFilter[k]) = Count(PostFilter, PostFilter[k])
        /\ vault = NoVault => Len(all_jobs) = Len(deduped)
        /\ \A i, j \in DOMAIN all_jobs : i < j =>
             LET a == all_jobs[i].posted_date
                 b == all_jobs[j].posted_date
             IN /\ a = <<>> => b = <<>>
                /\ (a # <<>> /\ b # <<>>) => NotOlder(a, b)
                /\ a = b => FirstPos(PostFilter, all_jobs[i]) < FirstPos(PostFilter, all_jobs[j])

\* The ledger stage ran with a ledger that names urls, and the sort moved a
\* record with no posted_date behind two records that share a posted_date.
C27_Witness ==
    /\ SortDone
    /\ vault.exists
    /\ seen_ids # {}
    /\ all_jobs # PostFilter
    /\ \E i, j \in DOMAIN all_jobs :
         /\ i < j
         /\ all_jobs[i].posted_date = all_jobs[j].posted_date
         /\ all_jobs[i].posted_date # <<>>
    /\ \E i \in DOMAIN all_jobs : all_jobs[i].posted_date = <<>>

\* C30: when the record deduplicate_jobs keeps for a title group has its id in
\* the ledger, the output of scrape_jobs holds no record with that normalized
\* title, whatever the ids of the other records of the group.
C30_SeenRepresentativeHidesGroup ==
    pc \in {"filtered", "sorted"} =>
        \A i \in DOMAIN deduped : deduped[i].id \in seen_ids =>
            \A k \in DOMAIN all_jobs : Key(all_jobs[k]) # Key(deduped[i])

\* The kept record of a group is in the ledger while another record of the
\* group, with another url and a source of lower priority, is not.
C30_Witness ==
    /\ SortDone
    /\ \E i \in DOMAIN deduped, j \in DOMAIN batch :
         /\ deduped[i].id \in seen_ids
         /\ Key(batch[j]) = Key(deduped[i])
         /\ batch[j].id \notin seen_ids
         /\ Strip(batch[j].url) # Strip(deduped[i].url)
         /\ PriorityRank(batch[j].source) > PriorityRank(deduped[i].source)

\* ------------------------------------------- free-text pipeline (scrape_jobs)
MaxResults == 2

\* A raw result of the search API.
Result(title, url, content, raw_content, published_date) ==
    [title |-> title, url |-> url, content |-> content,
     raw_content |-> raw_content, published_date |-> published_date]

\* Results the search returns: individual postings (two of them with the
\* title key "ds", from different sites), and pages that list jobs, by their
\* url, by their title, or by both.
TavilyResults ==
    { Result(Str(<<"D","s"," ","-"," ","A","c","m","e"," ","|"," ","L","i","n","k","e","d","I","n">>), Str(Url_LinkedInView), Str(<<"R","e","m","o","t","e">>), Absent, Str(D_Jan27)),
      Result(Str(<<"D","s">>), Str(Url_IndeedView), Str(<<>>), None, Str(D_Feb03)),
      Result(Str(<<"x"," ","a","t"," ","A","c","m","e">>), Str(<<"c">>), Str(<<"H","y","b","r","i","d"," ","i","n"," ","B","o","s","t","o","n",","," ","M","A">>), Absent, Absent),
      Result(Str(<<"3","4"," ","D","a","t","a"," ","S","c","i","e","n","c","e"," ","j","o","b","s"," ","i","n"," ","B","o","s","t","o","n",","," ","M","A">>), Str(<<"b">>), Str(<<>>), Absent, Str(D_Feb03)),
      Result(Str(<<"d","s","!">>), Str(Url_IndeedSearch), Str(<<>>), Absent, Absent),
      Result(Str(<<"D","a","t","a"," ","A","n","a","l","y","s","t"," ","j","o","b","s"," ","i","n"," ","R","e","m","o","t","e">>), Str(Url_LinkedInSearch), Str(<<"R","e","m","o","t","e">>), Absent, Str(D_Jan27)) }

\* The results of one search, at most two of them.
FoundLists ==
    {<<>>} \cup {<<r>> : r \in TavilyResults} \cup {<<r1, r2>> : r1 \in TavilyResults, r2 \in TavilyResults}

\* postings = [r for r in results if is_individual_job_posting(r)]
\* normalized = [normalize_tavily_result(r) for r in postings]
RECURSIVE NormalizedPostings(_, _)
NormalizedPostings(found, k) ==
    IF k > Len(found) THEN <<>>
    ELSE IF is_individual_job_posting(found[k])
         THEN <<normalize_tavily_result(found[k]).job>> \o NormalizedPostings(found, k + 1)
         ELSE NormalizedPostings(found, k + 1)

TavilyInit ==
    /\ pc = "collect"
    /\ DateIdle
    /\ all_jobs = <<>>
    /\ batch = <<>>
    /\ results = <<>>
    /\ deduped = <<>>
    /\ vault = NoVault
    /\ seen_ids = {}
    /\ raised = FALSE
    /\ ScoreIdle

\* One keyword of the loop: the search returns its results, the individual
\* postings among them are normalized and appended to all_jobs.
SearchKeyword ==
    /\ pc = "collect"
    /\ \E found \in FoundLists :
         /\ Len(found) > 0
         /\ Len(results) + Len(found) <= MaxResults
         /\ results' = results \o found
         /\ all_jobs' = all_jobs \o NormalizedPostings(found, 1)
    /\ UNCHANGED <<pc, batch, deduped, vault, seen_ids, raised>>
    /\ UNCHANGED scoreVars
    /\ UNCHANGED dateVars

TavilyNext == SearchKeyword \/ Deduplicate \/ FilterSeen \/ SkipFilter \/ SortByPostedDate

SpecTavily == TavilyInit /\ [][TavilyNext]_vars

\* The record a raw result would be normalized to.
RecordOf(result) == normalize_tavily_result(result).job

\* The result is a page of search results: its lowered url matches a pattern
\* of search and listing pages, or its lowered title one of search-page
\* titles.
IsListingPage(result) ==
    \/ \E k \in DOMAIN RejectUrlPatterns : ReSearch(RejectUrlPatterns[k], Lower(TextOf(result, "url")))
    \/ \E k \in DOMAIN RejectTitlePatterns : ReSearch(RejectTitlePatterns[k], Lower(TextOf(result, "title")))

Rejected == {n \in DOMAIN results : IsListingPage(results[n])}

\* C28: no record of the batch handed to the Deduplicator, and no record of
\* the list in any later stage up to the returned one, is the record of a raw
\* result that is_individual_job_posting rejects; every record comes from a
\* result it accepts.
C28_RejectedNeverNormalized ==
    /\ \A n \in Rejected :
         /\ \A k \in DOMAIN all_jobs : all_jobs[k] # RecordOf(results[n])
         /\ \A k \in DOMAIN batch : batch[k] # RecordOf(results[n])
    /\ \A k \in DOMAIN all_jobs :
         \E n \in DOMAIN results \ Rejected : all_jobs[k] = RecordOf(results[n])
    /\ \A k \in DOMAIN batch :
         \E n \in DOMAIN results \ Rejected : batch[k] = RecordOf(results[n])

\* A run returned a record although its searches had also found a page of
\* search results.
C28_Witness ==
    /\ pc = "sorted"
    /\ Len(all_jobs) > 0
    /\ Len(batch) > 0
    /\ Rejected # {}

\* ------------------------------------------------ one raw record normalized
\* A row of the JobSpy DataFrame as a dict.
JobspyRow(job_url, job_url_direct, title, company, location, description, site,
          date_posted, is_remote, min_amount, max_amount, interval, job_type) ==
    [job_url |-> job_url, job_url_direct |-> job_url_direct, title |-> title,
     company |-> company, location |-> location, description |-> description,
     site |-> site, date_posted |-> date_posted, is_remote |-> is_remote,
     min_amount |-> min_amount, max_amount |-> max_amount, interval |-> interval,
     job_type |-> job_type]

\* Rows with a url: the word "remote" in the title, the location or the
\* description, every kind of flag and of posting date.  Rows without
\* job_url: fields missing, None or NaN.
JobspyRows ==
    { JobspyRow(Str(<<"a">>), Absent, title, Str(<<"x">>), location, description, Str(<<"i","n","d","e","e","d">>),
                date_posted, is_remote, IntObj(<<"5","0","0","0","0">>), None, Str(<<"y","e","a","r","l","y">>), Str(<<"f","u","l","l","t","i","m","e">>)) :
        title \in {Str(<<"D","s">>), Str(<<"R","e","m","o","t","e"," ","D","s">>)},
        location \in {None, Str(<<"R","e","m","o","t","e",","," ","U","S">>), Str(<<"B","o","s","t","o","n">>)},
        description \in {NaN, Str(<<"f","u","l","l","y"," ","r","e","m","o","t","e">>)},
        date_posted \in {Absent, None, NaN, DateObj(D_Jan27), Str(D_Jan27)},
        is_remote \in {Absent, None, NaN, True, False} }
    \cup
    { JobspyRow(job_url, job_url_direct, title, company, Absent, None, NaN,
                Absent, Absent, min_amount, IntObj(<<"1","2","0","0">>), NaN, Absent) :
        job_url \in {Absent, None, NaN},
        job_url_direct \in {Absent, Str(<<"b">>)},
        title \in {Absent, None, NaN, Str(<<"x">>)},
        company \in {Absent, NaN},
        min_amount \in {Absent, NaN, Str(<<"5","0","0","0","0">>)} }

\* A result of the JSearch API.
JsearchResult(job_title, employer_name, job_description, job_apply_link, job_google_link,
              job_posted_at_datetime_utc, job_is_remote, job_employment_type, job_publisher,
              job_city, job_state, job_country, job_min_salary, job_max_salary, job_salary_period) ==
    [job_title |-> job_title, employer_name |-> employer_name, job_description |-> job_description,
     job_apply_link |-> job_apply_link, job_google_link |-> job_google_link,
     job_posted_at_datetime_utc |-> job_posted_at_datetime_utc, job_is_remote |-> job_is_remote,
     job_employment_type |-> job_employment_type, job_publisher |-> job_publisher,
     job_city |-> job_city, job_state |-> job_state, job_country |-> job_country,
     job_min_salary |-> job_min_salary, job_max_salary |-> job_max_salary,
     job_salary_period |-> job_salary_period]

JsearchResults ==
    { JsearchResult(title, Str(<<"x">>), description, Str(<<"a">>), Absent, posted, flag,
                    Str(<<"F","U","L","L","_","T","I","M","E">>), Str(<<"L","i","n","k","e","d","I","n">>), city, Str(<<"M","A">>), Str(<<"U","S">>),
                    IntObj(<<"5","0","0","0","0">>), IntObj(<<"6","0","0","0","0">>), Str(<<"Y","E","A","R">>)) :
        title \in {Str(<<"D","s">>), Str(<<"R","e","m","o","t","e"," ","D","s">>)},
        description \in {None, Str(<<"f","u","l","l","y"," ","r","e","m","o","t","e">>), Str(<<"O","n"," ","s","i","t","e">>)},
        posted \in {Absent, None, Str(D_Jan27_10h)},
        flag \in {Absent, None, NaN, True, False},
        city \in {None, Str(<<"R","e","m","o","t","e">>)} }
    \cup
    { JsearchResult(title, Absent, None, link, google, posted, Absent,
                    Absent, None, Absent, None, Absent, None, Absent, Absent) :
        title \in {Absent, None, NaN, Str(<<"x">>)},
        link \in {Absent, None, NaN},
        google \in {Absent, Str(<<"b">>)},
        posted \in {None, NaN} }

\* Results of the search API with fields missing and null.
TavilyRaw ==
    { Result(title, url, content, raw_content, published_date) :
        title \in {Absent, None, Str(<<"x">>), Str(<<"R","e","m","o","t","e"," ","D","s"," ","-"," ","A","c","m","e"," ","|"," ","L","i","n","k","e","d","I","n">>)},
        url \in {None, Str(<<"a">>)},
        content \in {Absent, None, Str(<<>>), Str(<<"H","y","b","r","i","d"," ","r","o","l","e">>)},
        raw_content \in {Absent, None, Str(<<"R","e","m","o","t","e"," ","i","n"," ","B","o","s","t","o","n">>)},
        published_date \in {Absent, None, Str(D_Jan27)} }
    \cup
    { Result(title, Absent, content, Absent, Absent) :
        title \in {Absent, Str(<<"x">>)},
        content \in {Absent, Str(<<>>)} }

\* The provider of a raw record, told by its keys.
Provider(raw) ==
    IF "job_title" \in DOMAIN raw THEN "jsearch"
    ELSE IF "content" \in DOMAIN raw THEN "tavily"
    ELSE "jobspy"

NormalizeInit ==
    /\ pc = "raw"
    /\ DateIdle
    /\ \/ \E row \in JobspyRows : results = <<row>>
       \/ \E job \in JsearchResults : results = <<job>>
       \/ \E result \in TavilyRaw : results = <<result>>
    /\ all_jobs = <<>>
    /\ batch = <<>>
    /\ deduped = <<>>
    /\ vault = NoVault
    /\ seen_ids = {}
    /\ raised = FALSE
    /\ ScoreIdle

\* The call returns its record into all_jobs, or raises.
Returned(call) ==
    /\ raised' = call.raised
    /\ all_jobs' = IF call.raised THEN <<>> ELSE <<call.job>>
    /\ pc' = IF call.raised THEN "failed" ELSE "normalized"
    /\ UNCHANGED <<batch, deduped, vault, seen_ids, results>>
    /\ UNCHANGED scoreVars
    /\ UNCHANGED dateVars

\* normalize_jobspy_row(row)
NormalizeJobspyRow ==
    /\ pc = "raw"
    /\ Provider(results[1]) = "jobspy"
    /\ Returned(normalize_jobspy_row(results[1]))

\* normalize_jsearch_result(job)
NormalizeJsearchResult ==
    /\ pc = "raw"
    /\ Provider(results[1]) = "jsearch"
    /\ Returned(normalize_jsearch_result(results[1]))

\* normalize_tavily_result(result)
NormalizeTavilyResult ==
    /\ pc = "raw"
    /\ Provider(results[1]) = "tavily"
    /\ Returned(normalize_tavily_result(results[1]))

NormalizeNext == NormalizeJobspyRow \/ NormalizeJsearchResult \/ NormalizeTavilyResult

SpecNormalize == NormalizeInit /\ [][NormalizeNext]_vars

\* ------------------------------------------------ properties of normalizers
NormalizeDone == pc \in {"normalized", "failed"}

\* The word "remote" occurs in the text, in any case.
HasRemote(text) == Contains(Lower(text), RemoteWord)

\* The explicit remote flag of the provider is true; the free-text provider
\* has no flag.
FlagIsTrue(raw) ==
    CASE Provider(raw) = "jobspy"  -> raw.is_remote = True
      [] Provider(raw) = "jsearch" -> raw.job_is_remote = True
      [] OTHER                     -> FALSE

\* C22: the returned record has remote true exactly when the provider's flag
\* is true or "remote" occurs in its title, its location or its description;
\* a missing, null or NaN flag counts as not set.
C22_RemoteIffFlagOrWord ==
    pc = "normalized" =>
        LET job == all_jobs[1] IN
        job.remote <=> \/ FlagIsTrue(results[1])
                       \/ HasRemote(job.title)
                       \/ HasRemote(job.location)
                       \/ HasRemote(job.description)

\* Every field of the raw record is absent, null or a string.
WellTyped(raw) == \A key \in DOMAIN raw : raw[key].kind \in {"absent", "none", "str"}

TextFields == {"title", "company", "location", "description", "url", "posted_date", "salary"}

\* C23: for a raw record whose fields are each absent, null or a string the
\* normalizer returns, and title, company, location, description, url,
\* posted_date and salary of the record are strings.
C23_NormalizationTotalAndTextual ==
    (NormalizeDone /\ WellTyped(results[1])) =>
        /\ ~raised
        /\ \A field \in TextFields : IsString(all_jobs[1][field])

\* The value is missing, None or NaN.
IsMissing(v) == v.kind \in {"absent", "none", "nan"}

\* The raw keys each field of the canonical record is taken from.
RawKeys(provider, field) ==
    IF provider = "jobspy"
    THEN CASE field = "title"           -> {"title"}
           [] field = "company"         -> {"company"}
           [] field = "location"        -> {"location"}
           [] field = "description"     -> {"description"}
           [] field = "url"             -> {"job_url", "job_url_direct"}
           [] field = "posted_date"     -> {"date_posted"}
           [] field = "employment_type" -> {"job_type"}
           [] field = "source"          -> {"site"}
    ELSE CASE field = "title"           -> {"job_title"}
           [] field = "company"         -> {"employer_name"}
           [] field = "location"        -> {"job_city", "job_state", "job_country"}
           [] field = "description"     -> {"job_description"}
           [] field = "url"             -> {"job_apply_link", "job_google_link"}
           [] field = "posted_date"     -> {"job_posted_at_datetime_utc"}
           [] field = "employment_type" -> {"job_employment_type"}
           [] field = "source"          -> {}

MappedFields == {"title", "company", "location", "description", "url", "posted_date", "employment_type", "source"}

\* C29: a structured provider's normalizer returns for every raw record; a
\* field of the record whose raw values are all missing, None or NaN is the
\* empty string; posted_date of normalize_jobspy_row is the ISO-8601 string
\* of a date object and the string form of any other value that is known.
C29_MissingBecomesEmpty ==
    (NormalizeDone /\ Provider(results[1]) # "tavily") =>
        LET raw == results[1]
            provider == Provider(raw)
        IN /\ ~raised
           /\ \A field \in MappedFields :
                (RawKeys(provider, field) # {} /\ \A key \in RawKeys(provider, field) : IsMissing(raw[key]))
                    => all_jobs[1][field] = <<>>
           /\ provider = "jobspy" =>
                /\ raw.date_posted.kind = "date" => all_jobs[1].posted_date = raw.date_posted.text
                /\ raw.date_posted.kind = "str" => all_jobs[1].posted_date = raw.date_posted.text

\* -------------------------------------------------- recency (is_within_hours)
\* Date texts of postings: empty and blank, words no format knows, dates
\* and date-times in the six formats (one with a day its month does not
\* have, one with fractional seconds, one in the future), relative times in
\* every unit, two of them longer than the calendar reaches back.
DateTexts ==
    { <<>>, <<" ">>, <<"r","e","c","e","n","t","l","y">>, <<"2"," ","h","r","s"," ","a","g","o">>, <<"2","0","2","5","-","0","2","-","3","0">>, <<"2","0","2","5","-","0","1","-","2","7","T","1","0",":","0","0",":","0","0",".","1","2","3","Z">>,
      <<"2","0","2","5","-","0","1","-","2","7">>, <<"2","0","2","5","-","1","-","2","5">>, <<"2","0","2","5","-","0","1","-","2","7","T","1","0",":","0","0",":","0","0","Z">>, <<"2","0","2","5","-","0","1","-","2","7","T","1","1",":","5","9",":","5","9">>,
      <<"2","0","2","5","-","0","1","-","2","6","T","1","2",":","0","0",":","0","0","+","0","5",":","3","0">>, <<"2","0","2","5","-","0","1","-","2","6","t","1","2",":","0","0",":","0","1","z">>, <<"J","a","n"," ","2","7",","," ","2","0","2","5">>,
      <<"j","a","n","u","a","r","y"," "," ","5",","," ","2","0","2","5">>, <<"2","9","9","9","-","0","1","-","0","1">>,
      <<"1"," ","m","i","n","u","t","e"," ","a","g","o">>, <<" ","2"," ","H","O","U","R","S"," ","a","g","o"," ">>, <<"2"," ","h","o","u","r","s"," ","a","g","o">>, <<"1"," ","d","a","y"," ","a","g","o">>, <<"3"," ","w","e","e","k","s"," ","a","g","o","!">>, <<"1"," ","m","o","n","t","h"," ","a","g","o">>,
      <<"4","0","0","0","0","0","0","0"," ","m","i","n","u","t","e","s"," ","a","g","o">>, <<"8","0","0","0","0","0"," ","d","a","y","s"," ","a","g","o">> }

HourValues == {-1, 0, 2, 24, 48, 720}

\* datetime.now() at the call: noon of 2025-01-27, and the same second late
\* in its last microsecond.
ClockValues == {DateTime(2025, 1, 27, 12, 0, 0, 0), DateTime(2025, 1, 27, 12, 0, 0, 999999)}

\* Microseconds that pass between the two calls of datetime.now().
Ticks == {0, 1}

\* is_within_hours(text, h) when datetime.now() is clock in parse_job_date
\* and later in the comparison.
is_within_hours(text, h, clock, later) ==
    LET call == parse_job_date(text, clock) IN
    IF call.raised THEN [raised |-> TRUE, within |-> FALSE, parsed |-> NoDate]
    ELSE IF call.date = NoDate THEN [raised |-> FALSE, within |-> TRUE, parsed |-> NoDate]
    ELSE IF DeltaOverflows(HoursDelta(h)) THEN [raised |-> TRUE, within |-> FALSE, parsed |-> call.date]
    ELSE [raised |-> FALSE, within |-> NotLonger(Elapsed(later, call.date), HoursDelta(h)),
          parsed |-> call.date]

DateInit ==
    /\ pc = "date"
    /\ date_str \in DateTexts
    /\ hours \in HourValues
    /\ now \in ClockValues
    /\ parsed = NoDate
    /\ within = FALSE
    /\ all_jobs = <<>>
    /\ batch = <<>>
    /\ results = <<>>
    /\ deduped = <<>>
    /\ vault = NoVault
    /\ seen_ids = {}
    /\ raised = FALSE
    /\ ScoreIdle

\* is_within_hours(date_str, hours)
IsWithinHours ==
    /\ pc = "date"
    /\ \E tick \in Ticks :
         LET later == Minus(now, Normalized(0, 0, -tick))
             call  == is_within_hours(date_str, hours, now, later)
         IN /\ parsed' = call.parsed
            /\ now' = later
            /\ raised' = call.raised
            /\ within' = call.within
            /\ pc' = IF call.raised THEN "failed" ELSE "checked"
    /\ UNCHANGED <<date_str, hours, all_jobs, batch, results, deduped, vault, seen_ids>>
    /\ UNCHANGED scoreVars

DateNext == IsWithinHours

SpecDate == DateInit /\ [][DateNext]_vars

\* The date lies no more than h hours before the instant of the clock.
\* The whole hours from the date to the clock are fewer than h, or they are h
\* and no second or microsecond more.
WithinHoursOf(date, h, clock) ==
    LET whole == 24 * (clock.day - date.day) + (clock.sec - date.sec) \div 3600
        rest  == (clock.sec - date.sec) % 3600
    IN \/ whole < h
       \/ whole = h /\ rest = 0 /\ clock.us <= date.us

\* C21: is_within_hours returns for every date text and hours value; it
\* returns true when parse_job_date gives no date, and otherwise true exactly
\* when the parsed date lies no more than hours hours before now.
C21_BenefitOfDoubt ==
    pc \in {"checked", "failed"} =>
        /\ ~raised
        /\ parsed = NoDate => within
        /\ parsed # NoDate => (within <=> WithinHoursOf(parsed, hours, now))

====
